---- MODULE Spec2Model ----
(***************************************************************************)
(* A model of the autodata validation and organization pipelines:          *)
(*   OrganizationPipeline.assign_splits      (organization_pipeline.py)    *)
(*   ValidationPipeline.validate_audio_file  (validation_pipeline.py)      *)
(*   ValidationPipeline.validate_dataset     (validation_pipeline.py)      *)
(*   OrganizationPipeline.organize_dataset   (organization_pipeline.py)    *)
(*                                                                         *)
(* Three specifications share the module:                                  *)
(*   SpecSplit  repeated calls of assign_splits on the process-wide        *)
(*              random generator;                                          *)
(*   SpecFile   validate_audio_file applied to one file under every rule   *)
(*              configuration;                                             *)
(*   Spec       validate_dataset: the thread pool, the as_completed loop   *)
(*              and the assembly of the report.                            *)
(* Floats are modelled by integers: ratios are hundredths, durations are   *)
(* whole seconds.  The external tools (ffprobe, ffmpeg, the file system)    *)
(* are modelled by the outcome they report for each file.                  *)
(***************************************************************************)
EXTENDS Integers, Sequences, FiniteSets, TLC

VARIABLES
    \* ---- assign_splits (SpecSplit) ----
    rng,        \* state of the process-wide generator of module random
    call,       \* <<the last assign_splits call>>: its arguments and return value
    ref,        \* <<arguments>> of the first call made, <<>> before it
    refSplits,  \* <<return value>> of that first call, <<>> before it
    others,     \* a call with other arguments was made after the first call
    \* ---- validate_audio_file (SpecFile) ----
    cfg,        \* self.config: the validation rules and the audio specification
    fileArg,    \* <<file, check_integrity>> handed to validate_audio_file
    fileRes,    \* <<its outcome>>, <<>> before the call
    \* ---- validate_dataset (Spec) ----
    audio_files,  \* find_audio_files(root): the sorted files; a path is an index
    vpc,          \* where validate_dataset is: start, collect, aborting, done, raised
    task,         \* per path, the state of its task in the thread pool
    future,       \* per path, <<the outcome of its task>>, <<>> while not finished
    loc,          \* the local accumulators of validate_dataset
    report,       \* the ValidationReport under construction, returned at done
    pool,         \* the ThreadPoolExecutor: none (not created), open, closed
    tie,          \* history: two tasks with the same file hash were finished and
                  \* not yet collected at the same time
    \* ---- organize_dataset (SpecOrg) ----
    args,         \* validate_first, skip_invalid, create_splits
    structure,    \* self.config.structure, as far as organize_dataset reads it
    opc,          \* where organize_dataset is: start, validate, discover,
                  \* execute, done, raised
    org_result,   \* the OrganizationResult under construction, returned at done
    mappings,     \* the TrackMapping objects, in planning order
    track_splits, \* the local splits: <<the list of split labels>>, <<>> for None
    otask,        \* per mapping, the state of its process_track task in the pool
    disk,         \* per mapping, the output file: absent, partial, complete
    dirs,         \* the directories created under the output path
    artifacts,    \* the metadata files written: tracks, splits, dataset_info
    phases,       \* history: the steps of organize_dataset entered so far
    \* ---- track planning (SpecPlan) ----
    planArg,      \* the file list handed to the planning loop, and two indices
    planRes,      \* <<the mappings planned, the track ids of the two indices>>
    planAgain,    \* <<the same, planned a second time>>, <<>> before that
    \* ---- main.py (SpecCli) ----
    cli,          \* the parsed command line: the subcommand and its flags
    cpc,          \* where main() is: start, validate, organize, exited
    exit_code,    \* <<the status the process exits with>>, <<>> while it runs
    \* ---- organize.py (SpecAsync) ----
    blobs,        \* meus_arquivos: the blobs of the origin bucket, as the storage
                  \* service answers for each
    apc,          \* per blob, where its processar_arquivo_async coroutine is
    hashes_processados,  \* the set shared by the coroutines
    resultado,    \* per blob, the status of its resultado
    uploads       \* the audio uploads started, in order: the blob of each

splitVars == <<rng, call, ref, refSplits, others>>

fileVars == <<fileArg, fileRes>>

valVars == <<audio_files, vpc, task, future, loc, report, pool, tie>>

orgVars == <<args, structure, opc, org_result, mappings, track_splits, otask, disk, dirs,
             artifacts, phases>>

planVars == <<planArg, planRes, planAgain>>

cliVars == <<cli, cpc, exit_code>>

asyncVars == <<blobs, apc, hashes_processados, resultado, uploads>>

vars == <<rng, call, ref, refSplits, others, cfg, fileArg, fileRes,
          audio_files, vpc, task, future, loc, report, pool, tie,
          args, structure, opc, org_result, mappings, track_splits, otask, disk, dirs,
          artifacts, phases, planArg, planRes, planAgain,
          cli, cpc, exit_code,
          blobs, apc, hashes_processados, resultado, uploads>>

(***************************************************************************)
(* Bounds of the model.                                                    *)
(***************************************************************************)
\* largest item count handed to assign_splits (besides the documented 10)
MaxTracks == 3

\* largest number of audio files in the input tree
MaxFiles == 3

\* the max_workers argument: the size of the thread pool
max_workers == 2

\* largest number of audio files in the source tree of organize_dataset
MaxOrgFiles == 2

\* largest number of blobs one run of the async bucket pipeline processes
MaxBlobs == 3

\* MAX_CONCURRENT: the value of the semaphore of the async bucket pipeline
max_concurrent == 2

\* ratios in hundredths (0.8 is 80); the defaults 0.8 / 0.1 / 0.1 are among them
Ratios == {10, 50, 80}

\* seeds handed to assign_splits; 42 is the default
Seeds == {42, 7}

(***************************************************************************)
(* module random: a seeded generator.  The Mersenne Twister is replaced by *)
(* a small full-period linear congruential generator; what the model keeps *)
(* is that the state is process-wide, that seed(s) resets it to a function *)
(* of s alone and that every draw advances it.                             *)
(***************************************************************************)
RngStates == 0..15

\* random.seed(seed)
RngSeed(seed) == seed % 16

RngNext(s) == (5 * s + 3) % 16

\* random._randbelow(k) on state s: the state after the draw and the value drawn
RandBelow(s, k) == [rng |-> RngNext(s), value |-> RngNext(s) % k]

Swap(x, i, j) == [x EXCEPT ![i] = x[j], ![j] = x[i]]

\* random.shuffle(x): for i in reversed(range(1, len(x))): j = randbelow(i + 1);
\* x[i], x[j] = x[j], x[i].  Positions are 1-based here.
RECURSIVE ShuffleFrom(_, _, _)
ShuffleFrom(x, i, s) ==
    IF i < 2 THEN [indices |-> x, rng |-> s]
    ELSE LET d == RandBelow(s, i)
         IN  ShuffleFrom(Swap(x, i, d.value + 1), i - 1, d.rng)

\* range(1, num_tracks): index 0 is never drawn
IndicesFromOne(num_tracks) == [k \in 1..(num_tracks - 1) |-> k]

\* indices = list(range(num_tracks))
Indices(num_tracks) == [k \in 1..num_tracks |-> k - 1]

\* indices = list(range(num_tracks)); random.shuffle(indices)
Shuffle(num_tracks, s) ==
    LET indices == Indices(num_tracks)
    IN  ShuffleFrom(indices, Len(indices), s)

\* int(num_tracks * ratio), the ratio in hundredths
RatioCount(num_tracks, ratio) == (num_tracks * ratio) \div 100

\* elif i < n_val: the boundary of 'val' not offset by n_train
SplitLabelNoOffset(i, n_train, n_val) ==
    IF i < n_train THEN "train"
    ELSE IF i < n_val THEN "val"
    ELSE "test"

\* the label the loop gives the i-th (0-based) shuffled position
SplitLabel(i, n_train, n_val) ==
    IF i < n_train THEN "train"
    ELSE IF i < n_train + n_val THEN "val"
    ELSE "test"

\* for i, idx in enumerate(indices): splits[idx] = label(i), from position k on
RECURSIVE LabelLoop(_, _, _, _, _)
LabelLoop(splits, indices, k, n_train, n_val) ==
    IF k > Len(indices) THEN splits
    ELSE LabelLoop([splits EXCEPT ![indices[k] + 1] = SplitLabel(k - 1, n_train, n_val)],
                   indices, k + 1, n_train, n_val)

\* assign_splits without its random.seed(seed): the generator is left as found
NoSeedAtEntry(s, seed) == s

\* the state random.seed(seed) leaves the generator in when assign_splits starts
SeedAtEntry(s, seed) == RngSeed(seed)

\* assign_splits(num_tracks, train_ratio, val_ratio, test_ratio, seed) called with
\* the generator in state s: the returned list and the state it leaves
assign_splits(s, num_tracks, train_ratio, val_ratio, test_ratio, seed) ==
    LET sh      == Shuffle(num_tracks, SeedAtEntry(s, seed))
        n_train == RatioCount(num_tracks, train_ratio)
        n_val   == RatioCount(num_tracks, val_ratio)
        splits0 == [k \in 1..num_tracks |-> ""]
    IN  [splits |-> LabelLoop(splits0, sh.indices, 1, n_train, n_val),
         rng    |-> sh.rng]

(***************************************************************************)
(* config.py: AudioSpec and ValidationRules.                               *)
(***************************************************************************)
sample_rate == 44100
channels == 2
bit_depth == 16
min_duration_sec == 1

\* AudioSpec.max_duration_sec: 0 stands for None; the code tests the value for
\* truth, so None and 0.0 both switch the upper limit off
NoMaxDuration == 0

\* DEFAULT_CONFIG: every check on, duplicates not allowed, detection by hash
DEFAULT_CONFIG ==
    [check_audio_integrity |-> TRUE,
     check_duration_range  |-> TRUE,
     check_sample_rate     |-> TRUE,
     check_channels        |-> TRUE,
     allow_duplicates      |-> FALSE,
     duplicate_detection   |-> "hash",
     max_duration_sec      |-> NoMaxDuration]

\* every rule configuration: each toggle either way, with and without an upper
\* duration limit (600 s)
Configs ==
    [check_audio_integrity : BOOLEAN,
     check_duration_range  : BOOLEAN,
     check_sample_rate     : BOOLEAN,
     check_channels        : BOOLEAN,
     allow_duplicates      : BOOLEAN,
     duplicate_detection   : {"hash", "filename"},
     max_duration_sec      : {NoMaxDuration, 600}]

(***************************************************************************)
(* A file, as the external tools see it: what ffprobe reports, whether the *)
(* full decode of ffmpeg succeeds, whether open() succeeds when the file   *)
(* is hashed, and the digest of its bytes (content).                       *)
(***************************************************************************)
NoHash == 0

AudioFiles ==
    [probe_ok     : BOOLEAN,
     duration_sec : {0, 5, 700},
     sample_rate  : {22050, sample_rate, 48000},
     channels     : {1, channels},
     bit_depth    : {bit_depth},
     format       : {"wav"},
     ext          : {"wav"},
     size         : {100},
     integrity_ok : BOOLEAN,
     readable     : BOOLEAN,
     content      : {1}]

\* bit_depth = None: "int(stream.get('bits_per_sample', 0)) or None"
NoBitDepth == 0

\* utils.get_audio_info: the AudioInfo of a file; every failure of the probe is
\* caught and returned as is_valid = False with zeroed fields.  ext is the
\* suffix of AudioInfo.filepath, as the file is named.
get_audio_info(f) ==
    IF f.probe_ok
    THEN [is_valid |-> TRUE, ext |-> f.ext, duration_sec |-> f.duration_sec,
          sample_rate |-> f.sample_rate, channels |-> f.channels,
          bit_depth |-> f.bit_depth, format |-> f.format,
          file_size_bytes |-> f.size]
    ELSE [is_valid |-> FALSE, ext |-> f.ext, duration_sec |-> 0,
          sample_rate |-> 0, channels |-> 0, bit_depth |-> NoBitDepth,
          format |-> "", file_size_bytes |-> 0]

\* utils.verify_audio_integrity: (is_ok, error); every failure is caught
verify_audio_integrity(f) == f.integrity_ok

\* utils.compute_file_hash: the digest of the bytes, or the exception open()
\* raises on a file that cannot be read; nothing in it catches
compute_file_hash(f) ==
    IF f.readable THEN [raised |-> FALSE, hash |-> f.content]
    ELSE [raised |-> TRUE, hash |-> NoHash]

\* utils.compute_audio_hash: the digest of the decoded audio, None on any failure
compute_audio_hash(f) == IF f.integrity_ok THEN f.content ELSE NoHash

\* the issue strings, by the text before their first colon
IssueProbe     == "Erro ao ler arquivo"
IssueShort     == "Duracao muito curta"
IssueLong      == "Duracao muito longa"
IssueRate      == "Sample rate incorreto"
IssueChannels  == "Numero de canais incorreto"
IssueIntegrity == "Falha de integridade"

\* AudioValidationResult(filepath, filename, is_valid=True, issues=[])
NewResult(path) ==
    [filepath |-> path, is_valid |-> TRUE, audio_info |-> <<>>,
     integrity_ok |-> TRUE, duration_ok |-> TRUE, sample_rate_ok |-> TRUE,
     channels_ok |-> TRUE, file_hash |-> NoHash, audio_hash |-> NoHash,
     issues |-> <<>>, raised |-> FALSE]

\* the duration check of validate_audio_file
CheckDuration(r, info, c) ==
    IF ~c.check_duration_range THEN r
    ELSE LET short == info.duration_sec < min_duration_sec
             long  == c.max_duration_sec # 0 /\ info.duration_sec > c.max_duration_sec
         IN  [r EXCEPT !.duration_ok = ~(short \/ long),
                       !.issues = @ \o (IF short THEN <<IssueShort>> ELSE <<>>)
                                    \o (IF long THEN <<IssueLong>> ELSE <<>>)]

\* the sample rate check compared with >: a lower rate passes
CheckSampleRateAbove(r, info, c) ==
    IF c.check_sample_rate /\ info.sample_rate > sample_rate
    THEN [r EXCEPT !.sample_rate_ok = FALSE, !.issues = Append(@, IssueRate)]
    ELSE r

\* the sample rate check made whether or not the rules enable it
CheckSampleRateAlways(r, info, c) ==
    IF info.sample_rate # sample_rate
    THEN [r EXCEPT !.sample_rate_ok = FALSE, !.issues = Append(@, IssueRate)]
    ELSE r

\* the sample rate check
CheckSampleRate(r, info, c) ==
    IF c.check_sample_rate /\ info.sample_rate # sample_rate
    THEN [r EXCEPT !.sample_rate_ok = FALSE, !.issues = Append(@, IssueRate)]
    ELSE r

\* the channel check
CheckChannels(r, info, c) ==
    IF c.check_channels /\ info.channels # channels
    THEN [r EXCEPT !.channels_ok = FALSE, !.issues = Append(@, IssueChannels)]
    ELSE r

\* the integrity check: run when requested by the caller and enabled by the rules
CheckIntegrity(r, f, c, check_integrity) ==
    IF check_integrity /\ c.check_audio_integrity
    THEN [r EXCEPT !.integrity_ok = verify_audio_integrity(f),
                   !.issues = IF verify_audio_integrity(f) THEN @
                              ELSE Append(@, IssueIntegrity)]
    ELSE r

\* the hashes: computed unless duplicates are allowed; an exception of
\* compute_file_hash leaves validate_audio_file (nothing catches it)
ComputeHashes(r, f, c) ==
    IF c.allow_duplicates THEN r
    ELSE LET h == compute_file_hash(f)
         IN  IF h.raised THEN [r EXCEPT !.raised = TRUE]
             ELSE [r EXCEPT !.file_hash = h.hash,
                            !.audio_hash = IF c.duplicate_detection = "hash"
                                           THEN compute_audio_hash(f) ELSE NoHash]

\* result.is_valid = all four flags and no issue
OverallValidity(r) ==
    [r EXCEPT !.is_valid = /\ r.integrity_ok /\ r.duration_ok
                           /\ r.sample_rate_ok /\ r.channels_ok
                           /\ Len(r.issues) = 0]

\* validate_audio_file(filepath, check_integrity): the returned result, or
\* raised = TRUE when an exception leaves the function
validate_audio_file(f, path, c, check_integrity) ==
    LET info == get_audio_info(f)
        r0   == [NewResult(path) EXCEPT !.audio_info = info]
    IN  IF ~info.is_valid
        THEN [r0 EXCEPT !.is_valid = FALSE, !.issues = Append(@, IssueProbe)]
        ELSE LET r1 == CheckDuration(r0, info, c)
                 r2 == CheckSampleRate(r1, info, c)
                 r3 == CheckChannels(r2, info, c)
                 r4 == CheckIntegrity(r3, f, c, check_integrity)
                 r5 == ComputeHashes(r4, f, c)
             IN  IF r5.raised THEN r5 ELSE OverallValidity(r5)

(***************************************************************************)
(* validate_dataset: the accumulators of the as_completed loop.            *)
(***************************************************************************)
\* Counter() / defaultdict(int): a map from the keys counted so far
EmptyCounter == [k \in {} |-> 0]

\* counter[k] += n
CounterAdd(counter, k, n) ==
    IF k \in DOMAIN counter THEN [counter EXCEPT ![k] = @ + n]
    ELSE [x \in DOMAIN counter \cup {k} |-> IF x = k THEN n ELSE counter[x]]

RECURSIVE CountIssues(_, _, _)
\* for issue in result.issues: issues_counter[issue.split(':')[0]] += 1
CountIssues(counter, issues, k) ==
    IF k > Len(issues) THEN counter
    ELSE CountIssues(CounterAdd(counter, issues[k], 1), issues, k + 1)

\* the position of hash h in the hash map (a dict, in insertion order), 0 if absent
HashIndex(hm, h) ==
    IF \E i \in 1..Len(hm) : hm[i].hash = h
    THEN CHOOSE i \in 1..Len(hm) : hm[i].hash = h
    ELSE 0

\* hash_map[h] = [path]: the bucket replaced, not extended
HashMapOverwrite(hm, h, path) ==
    IF HashIndex(hm, h) = 0 THEN Append(hm, [hash |-> h, files |-> <<path>>])
    ELSE [hm EXCEPT ![HashIndex(hm, h)].files = <<path>>]

\* hash_map[h].append(path) on a defaultdict(list)
HashMapAppend(hm, h, path) ==
    IF HashIndex(hm, h) = 0 THEN Append(hm, [hash |-> h, files |-> <<path>>])
    ELSE [hm EXCEPT ![HashIndex(hm, h)].files = Append(@, path)]

\* the locals of validate_dataset before the loop
NewLocals ==
    [file_results       |-> <<>>,
     format_counts      |-> EmptyCounter,
     sample_rate_counts |-> EmptyCounter,
     channel_counts     |-> EmptyCounter,
     durations          |-> <<>>,
     sizes              |-> <<>>,
     issues_counter     |-> EmptyCounter,
     hash_map           |-> <<>>,
     progress           |-> <<>>]

\* ValidationReport(dataset_path, validated_at): every count zero, every
\* collection empty
NewReport ==
    [total_audio_files        |-> 0,
     valid_audio_files        |-> 0,
     invalid_audio_files      |-> 0,
     total_duration_sec       |-> 0,
     min_duration_sec         |-> 0,
     max_duration_sec         |-> 0,
     total_size_bytes         |-> 0,
     format_distribution      |-> EmptyCounter,
     sample_rate_distribution |-> EmptyCounter,
     channels_distribution    |-> EmptyCounter,
     issues_summary           |-> EmptyCounter,
     duplicates_found         |-> <<>>,
     file_results             |-> <<>>]

\* the part of the loop body run for a result whose probe succeeded
CollectInfo(l, result) ==
    LET info == result.audio_info
        l1   == [l EXCEPT
                  !.format_counts      = CounterAdd(@, info.format, 1),
                  !.sample_rate_counts = CounterAdd(@, info.sample_rate, 1),
                  !.channel_counts     = CounterAdd(@, info.channels, 1),
                  !.durations          = Append(@, info.duration_sec),
                  !.sizes              = Append(@, info.file_size_bytes)]
    IN  IF result.file_hash # NoHash
        THEN [l1 EXCEPT !.hash_map = HashMapAppend(@, result.file_hash, result.filepath)]
        ELSE l1

\* the loop body without "if result.audio_info and result.audio_info.is_valid":
\* every result enters the distributions
CollectLocalsUnguarded(l, result, total) ==
    LET l1 == [l EXCEPT !.file_results = Append(@, result)]
        l2 == CollectInfo(l1, result)
        l3 == [l2 EXCEPT !.issues_counter = CountIssues(@, result.issues, 1)]
    IN  [l3 EXCEPT !.progress = Append(@, <<Len(l.file_results) + 1, total>>)]

\* one pass of the loop body on the locals: result is the i-th (0-based) collected
CollectLocals(l, result, total) ==
    LET l1 == [l EXCEPT !.file_results = Append(@, result)]
        l2 == IF result.audio_info.is_valid THEN CollectInfo(l1, result) ELSE l1
        l3 == [l2 EXCEPT !.issues_counter = CountIssues(@, result.issues, 1)]
    IN  [l3 EXCEPT !.progress = Append(@, <<Len(l.file_results) + 1, total>>)]

\* a loop body that counts the valid results only
CollectReportValidOnly(rep, result) ==
    IF result.is_valid
    THEN [rep EXCEPT !.valid_audio_files = @ + 1]
    ELSE rep

\* one pass of the loop body on the report: the valid / invalid counters
CollectReport(rep, result) ==
    IF result.is_valid
    THEN [rep EXCEPT !.valid_audio_files = @ + 1]
    ELSE [rep EXCEPT !.invalid_audio_files = @ + 1]

RECURSIVE SeqSum(_)
SeqSum(q) == IF q = <<>> THEN 0 ELSE Head(q) + SeqSum(Tail(q))

\* Durations are Python floats (utils.get_audio_info: float(...)); they are
\* modelled as binary floating-point numbers scaled to whole units, with a
\* significand of MantissaBits bits where a Python float has 53.
MantissaBits == 4

RECURSIVE BitLength(_)
BitLength(n) == IF n = 0 THEN 0 ELSE 1 + BitLength(n \div 2)

RECURSIVE Pow2(_)
Pow2(k) == IF k = 0 THEN 1 ELSE 2 * Pow2(k - 1)

\* the nearest number with a significand of MantissaBits bits, ties to the even
\* significand
RoundFloat(n) ==
    IF BitLength(n) <= MantissaBits THEN n
    ELSE LET u == Pow2(BitLength(n) - MantissaBits)
             q == n \div u
             r == n % u
         IN  IF 2 * r > u \/ (2 * r = u /\ q % 2 = 1) THEN (q + 1) * u ELSE q * u

\* float + float: the exact sum, rounded
FloatAdd(a, b) == RoundFloat(a + b)

\* sum(q) on a list of floats: the elements are added one by one, from the left
RECURSIVE FloatSumFrom(_, _)
FloatSumFrom(acc, q) ==
    IF q = <<>> THEN acc ELSE FloatSumFrom(FloatAdd(acc, Head(q)), Tail(q))

FloatSum(q) == FloatSumFrom(0, q)

SeqMin(q) == CHOOSE x \in {q[i] : i \in 1..Len(q)} : \A i \in 1..Len(q) : x <= q[i]

SeqMax(q) == CHOOSE x \in {q[i] : i \in 1..Len(q)} : \A i \in 1..Len(q) : x >= q[i]

\* a comprehension that keeps every bucket: the filter len(files) > 1 left out
AllBuckets(hm) == hm

\* [{"hash": h, "files": files} for h, files in hash_map.items() if len(files) > 1]
DuplicateGroups(hm) == SelectSeq(hm, LAMBDA g : Len(g.files) > 1)

\* sum(len(d["files"]) - 1 for d in duplicates)
RECURSIVE ExtraCopies(_)
ExtraCopies(dups) ==
    IF dups = <<>> THEN 0 ELSE (Len(Head(dups).files) - 1) + ExtraCopies(Tail(dups))

\* the statements after the loop: duplicates, statistics, distributions
AssembleReport(rep, l) ==
    LET duplicates == DuplicateGroups(l.hash_map)
        issues     == IF duplicates # <<>>
                      THEN [x \in DOMAIN l.issues_counter \cup {"Duplicatas encontradas"} |->
                              IF x = "Duplicatas encontradas" THEN ExtraCopies(duplicates)
                              ELSE l.issues_counter[x]]
                      ELSE l.issues_counter
    IN  [rep EXCEPT
          !.duplicates_found         = duplicates,
          !.total_duration_sec       = IF l.durations # <<>> THEN FloatSum(l.durations) ELSE @,
          !.min_duration_sec         = IF l.durations # <<>> THEN SeqMin(l.durations) ELSE @,
          !.max_duration_sec         = IF l.durations # <<>> THEN SeqMax(l.durations) ELSE @,
          !.total_size_bytes         = SeqSum(l.sizes),
          !.format_distribution      = l.format_counts,
          !.sample_rate_distribution = l.sample_rate_counts,
          !.channels_distribution    = l.channel_counts,
          !.issues_summary           = issues,
          !.file_results             = l.file_results]

\* item counts handed to assign_splits: every small N, and the N = 10 of the
\* documented example
TrackCounts == 0..MaxTracks \cup {10}

SplitKeys == [n : TrackCounts, train : Ratios, val : Ratios, seed : Seeds]

SplitIdle ==
    /\ rng = 0
    /\ call = <<>>
    /\ ref = <<>>
    /\ refSplits = <<>>
    /\ others = FALSE

\* no validate_audio_file call of its own is modelled
FileIdle ==
    /\ fileArg = <<>>
    /\ fileRes = <<>>

\* no planning of its own is modelled
PlanIdle ==
    /\ planArg = <<>>
    /\ planRes = <<>>
    /\ planAgain = <<>>

\* no command line is modelled: the pipelines are called directly
CliIdle ==
    /\ cli = <<>>
    /\ cpc = "idle"
    /\ exit_code = <<>>

\* no run of the async bucket pipeline is modelled
AsyncIdle ==
    /\ blobs = <<>>
    /\ apc = <<>>
    /\ hashes_processados = {}
    /\ resultado = <<>>
    /\ uploads = <<>>

\* no organize_dataset call is modelled
OrgIdle ==
    /\ args = <<>>
    /\ structure = <<>>
    /\ opc = "idle"
    /\ org_result = <<>>
    /\ mappings = <<>>
    /\ track_splits = <<>>
    /\ otask = <<>>
    /\ disk = <<>>
    /\ dirs = {}
    /\ artifacts = <<>>
    /\ phases = <<>>

\* no validate_dataset call is modelled
ValIdle ==
    /\ audio_files = <<>>
    /\ vpc = "idle"
    /\ task = <<>>
    /\ future = <<>>
    /\ loc = <<>>
    /\ report = <<>>
    /\ pool = "none"
    /\ tie = FALSE

InitSplit ==
    /\ rng \in RngStates
    /\ call = <<>>
    /\ ref = <<>>
    /\ refSplits = <<>>
    /\ others = FALSE
    /\ cfg = DEFAULT_CONFIG
    /\ FileIdle
    /\ ValIdle
    /\ OrgIdle
    /\ PlanIdle
    /\ CliIdle
    /\ AsyncIdle

\* one call of assign_splits
AssignSplitsCall ==
    \E k \in SplitKeys, test_ratio \in {10, 80} :
        LET r == assign_splits(rng, k.n, k.train, k.val, test_ratio, k.seed)
        IN  /\ call' = <<[n |-> k.n, train |-> k.train, val |-> k.val,
                          seed |-> k.seed, splits |-> r.splits]>>
            /\ rng' = r.rng
            /\ ref' = IF ref = <<>> THEN <<k>> ELSE ref
            /\ refSplits' = IF ref = <<>> THEN <<r.splits>> ELSE refSplits
            /\ others' = (others \/ (ref # <<>> /\ ref # <<k>>))
            /\ UNCHANGED <<cfg, fileVars, valVars, orgVars, planVars, cliVars, asyncVars>>

NextSplit == AssignSplitsCall

SpecSplit == InitSplit /\ [][NextSplit]_vars

(***************************************************************************)
(* SpecFile: one call of validate_audio_file, on any file under any rule   *)
(* configuration.                                                          *)
(***************************************************************************)
InitFile ==
    /\ SplitIdle
    /\ cfg \in Configs
    /\ fileArg \in {<<f, ci>> : f \in AudioFiles, ci \in BOOLEAN}
    /\ fileRes = <<>>
    /\ ValIdle
    /\ OrgIdle
    /\ PlanIdle
    /\ CliIdle
    /\ AsyncIdle

ValidateAudioFileCall ==
    /\ fileRes = <<>>
    /\ fileRes' = <<validate_audio_file(fileArg[1], 1, cfg, fileArg[2])>>
    /\ UNCHANGED <<cfg, fileArg, splitVars, valVars, orgVars, planVars, cliVars, asyncVars>>

NextFile == ValidateAudioFileCall

SpecFile == InitFile /\ [][NextFile]_vars

(***************************************************************************)
(* Spec: validate_dataset(dataset_path, check_integrity=True, max_workers). *)
(* The main thread submits one validate_audio_file task per audio file to  *)
(* a ThreadPoolExecutor and collects the futures with as_completed.        *)
(***************************************************************************)
\* a file at the target specification whose bytes hash to c
GoodFile(c) ==
    [probe_ok |-> TRUE, duration_sec |-> 5, sample_rate |-> sample_rate,
     channels |-> channels, bit_depth |-> bit_depth, format |-> "wav",
     ext |-> "wav", size |-> 100 * c,
     integrity_ok |-> TRUE, readable |-> TRUE, content |-> c]

\* the files an input tree is made of; byte-identical files (same content) get
\* the same answers from the probe: two contents at specification, one at the
\* wrong sample rate and of another duration, one that cannot be probed, and a
\* copy of the second that is probed but cannot be read when it is hashed
DatasetFiles ==
    {GoodFile(1), GoodFile(2),
     [GoodFile(3) EXCEPT !.sample_rate = 48000, !.duration_sec = 12],
     [GoodFile(4) EXCEPT !.probe_ok = FALSE],
     [GoodFile(2) EXCEPT !.readable = FALSE]}

\* the input trees: every sequence of at most MaxFiles files
Datasets == UNION {[1..n -> DatasetFiles] : n \in 0..MaxFiles}

Paths == 1..Len(audio_files)

\* the rule configurations validate_dataset is run under: the default, duplicates
\* allowed, and the sample rate check switched off
DatasetConfigs ==
    {DEFAULT_CONFIG,
     [DEFAULT_CONFIG EXCEPT !.allow_duplicates = TRUE],
     [DEFAULT_CONFIG EXCEPT !.check_sample_rate = FALSE]}

Init ==
    /\ SplitIdle
    /\ FileIdle
    /\ cfg \in DatasetConfigs
    /\ audio_files \in Datasets
    /\ vpc = "start"
    /\ task = [p \in Paths |-> "new"]
    /\ future = [p \in Paths |-> <<>>]
    /\ loc = NewLocals
    /\ report = NewReport
    /\ pool = "none"
    /\ tie = FALSE
    /\ OrgIdle
    /\ PlanIdle
    /\ CliIdle
    /\ AsyncIdle

\* validate_dataset without "if report.total_audio_files == 0: return report"
AfterCountNoReturn(total) == "collect"

\* where validate_dataset goes once the files are counted: it returns the report
\* when there is no audio file, else it opens the pool and submits the tasks
AfterCount(total) == IF total = 0 THEN "done" ELSE "collect"

\* validate_dataset up to the submission of the tasks: the report gets the file
\* count; without audio files it is returned at once, else every file is submitted
ValidateDatasetStart ==
    /\ vpc = "start"
    /\ report' = [report EXCEPT !.total_audio_files = Len(audio_files)]
    /\ vpc' = AfterCount(Len(audio_files))
    /\ IF vpc' = "done"
       THEN UNCHANGED <<task, pool>>
       ELSE pool' = "open" /\ task' = [p \in Paths |-> "queued"]
    /\ UNCHANGED <<audio_files, future, loc, tie, cfg, splitVars, fileVars, orgVars, planVars, cliVars, asyncVars>>

Running == {p \in Paths : task[p] = "running"}

\* a pool whose queued tasks are cancelled once the collecting loop has been left
\* by an exception: no task starts after that
WorkerStartUnlessAborting(p) ==
    /\ vpc = "collect"
    /\ task[p] = "queued"
    /\ \A q \in Paths : q < p => task[q] # "queued"
    /\ Cardinality(Running) < max_workers
    /\ task' = [task EXCEPT ![p] = "running"]
    /\ UNCHANGED <<audio_files, vpc, future, loc, report, pool, tie, cfg,
                   splitVars, fileVars, orgVars, planVars, cliVars, asyncVars>>

\* a pool thread takes the oldest queued task (the work queue is first in, first
\* out; at most max_workers threads exist)
WorkerStart(p) ==
    /\ task[p] = "queued"
    /\ \A q \in Paths : q < p => task[q] # "queued"
    /\ Cardinality(Running) < max_workers
    /\ task' = [task EXCEPT ![p] = "running"]
    /\ UNCHANGED <<audio_files, vpc, future, loc, report, pool, tie, cfg,
                   splitVars, fileVars, orgVars, planVars, cliVars, asyncVars>>

\* two futures that are finished, not yet collected, and carry the same file hash
Tied(tk, fu) ==
    \E p, q \in Paths :
        /\ p # q /\ tk[p] = "finished" /\ tk[q] = "finished"
        /\ ~fu[p][1].raised /\ ~fu[q][1].raised
        /\ fu[p][1].file_hash # NoHash /\ fu[p][1].file_hash = fu[q][1].file_hash

\* the task ends: its future holds the result, or the exception that left
\* validate_audio_file; the worker writes nothing else
WorkerFinish(p) ==
    /\ task[p] = "running"
    /\ task' = [task EXCEPT ![p] = "finished"]
    /\ future' = [future EXCEPT ![p] = <<validate_audio_file(audio_files[p], p, cfg, TRUE)>>]
    /\ tie' = (tie \/ Tied(task', future'))
    /\ UNCHANGED <<audio_files, vpc, loc, report, pool, cfg, splitVars, fileVars, orgVars, planVars, cliVars, asyncVars>>

\* one pass of "for i, future in enumerate(as_completed(futures))" on a finished
\* future; future.result() re-raises the task's exception, which leaves the loop;
\* after the last result the pool is closed and the report assembled and returned
Collect(p) ==
    /\ vpc = "collect"
    /\ task[p] = "finished"
    /\ task' = [task EXCEPT ![p] = "collected"]
    /\ LET result == future[p][1]
           total  == Len(audio_files)
           l      == CollectLocals(loc, result, total)
           r      == CollectReport(report, result)
       IN  IF result.raised
           THEN vpc' = "aborting" /\ UNCHANGED <<loc, report, pool>>
           ELSE /\ loc' = l
                /\ IF Len(l.file_results) = total
                   THEN vpc' = "done" /\ pool' = "closed"
                        /\ report' = AssembleReport(r, l)
                   ELSE vpc' = "collect" /\ report' = r /\ UNCHANGED pool
    /\ UNCHANGED <<audio_files, future, tie, cfg, splitVars, fileVars, orgVars, planVars, cliVars, asyncVars>>

\* the exception leaves the with block: ThreadPoolExecutor.__exit__ waits for
\* every submitted task (none is cancelled), then validate_dataset raises
AbortRaise ==
    /\ vpc = "aborting"
    /\ \A p \in Paths : task[p] \in {"finished", "collected"}
    /\ vpc' = "raised"
    /\ pool' = "closed"
    /\ UNCHANGED <<audio_files, task, future, loc, report, tie, cfg, splitVars, fileVars, orgVars, planVars, cliVars, asyncVars>>

Next ==
    \/ ValidateDatasetStart
    \/ \E p \in Paths : WorkerStart(p)
    \/ \E p \in Paths : WorkerFinish(p)
    \/ \E p \in Paths : Collect(p)
    \/ AbortRaise

Spec == Init /\ [][Next]_vars

(***************************************************************************)
(* organization_pipeline.py: planning and processing of one track.         *)
(***************************************************************************)
\* config.py NamingConvention and AudioSpec.format
id_padding == 5

prefix == "track"

target_ext == "wav"

\* Optional[str] error: <<>> is None, <<s>> the string s
NoError == <<>>

\* the truth value Python gives an Optional[str]: None and "" are false
Truthy(e) == e # <<>> /\ e[1] # ""

\* str(index): the decimal digits
RECURSIVE Digits(_)
Digits(n) == IF n < 10 THEN <<n>> ELSE Append(Digits(n \div 10), n % 10)

\* a padding that keeps exactly width digits: the leading digits of a longer
\* number are cut off
ZFillTruncating(d, width) ==
    LET padded == [i \in 1..width |-> 0] \o d
    IN  SubSeq(padded, Len(padded) - width + 1, Len(padded))

\* str.zfill(width): zeros on the left up to width, never a truncation
ZFill(d, width) ==
    IF Len(d) >= width THEN d ELSE [i \in 1..(width - Len(d)) |-> 0] \o d

\* utils.generate_track_id: f"{prefix}_{str(index).zfill(padding)}"
generate_track_id(index, padding, pre) ==
    [prefix |-> pre, digits |-> ZFill(Digits(index), padding)]

\* str.lower() on a file suffix
Lower(e) == IF e = "WAV" THEN "wav" ELSE IF e = "MP3" THEN "mp3" ELSE e

\* needs_conversion with a bit depth test that also fires when ffprobe reported
\* no bit depth
NeedsConversionAnyDepth(info) ==
    \/ Lower(info.ext) # target_ext
    \/ info.sample_rate # sample_rate
    \/ info.channels # channels
    \/ info.bit_depth # bit_depth

\* OrganizationPipeline.needs_conversion(audio_info)
needs_conversion(info) ==
    \/ Lower(info.ext) # target_ext
    \/ info.sample_rate # sample_rate
    \/ info.channels # channels
    \/ (info.bit_depth # NoBitDepth /\ info.bit_depth # bit_depth)

\* DirectoryStructure.splits
StructureSplits == <<"train", "val", "test">>

\* the keys f'audio_{split}' and f'annotations_{split}' of dirs
AudioDir(split) ==
    CASE split = "train" -> "audio_train"
      [] split = "val"   -> "audio_val"
      [] split = "test"  -> "audio_test"

AnnotationsDir(split) ==
    CASE split = "train" -> "annotations_train"
      [] split = "val"   -> "annotations_val"
      [] split = "test"  -> "annotations_test"

\* the directories create_directory_structure makes before it reads
\* structure.use_splits_subdirs
BaseDirs == {"output", "audio", "metadata", "annotations"}

\* OrganizationPipeline.create_directory_structure: the directories made, and
\* whether reading structure.use_splits_subdirs raised AttributeError (the
\* DirectoryStructure dataclass declares no such field; st.use_splits_subdirs is
\* <<>> unless the caller has put the attribute on the object)
create_directory_structure(st) ==
    IF st.use_splits_subdirs = <<>>
    THEN [raised |-> TRUE, dirs |-> BaseDirs]
    ELSE [raised |-> FALSE,
          dirs   |-> IF st.use_splits_subdirs[1]
                     THEN BaseDirs
                          \cup {AudioDir(StructureSplits[k]) : k \in 1..3}
                          \cup {AnnotationsDir(StructureSplits[k]) : k \in 1..3}
                     ELSE BaseDirs]

\* OrganizationPipeline.convert_audio: (success, error_message).  ffmpeg ends
\* with status 0 ("ok"), with a non-zero status and text on stderr, a timeout or
\* an exception of subprocess.run ("error"), or with a non-zero status and
\* nothing on stderr, as when it is killed ("empty")
convert_audio(f) ==
    CASE f.convert = "ok"    -> [success |-> TRUE,  error |-> NoError]
      [] f.convert = "error" -> [success |-> FALSE, error |-> <<"stderr">>]
      [] f.convert = "empty" -> [success |-> FALSE, error |-> <<"">>]

\* process_track without "if not success: mapping.error = error; return"
ConvertOutcomeIgnored(m, c) == [m EXCEPT !.conversion_done = TRUE]

\* what process_track does with the answer of convert_audio
ConvertOutcome(m, c) ==
    IF ~c.success THEN [m EXCEPT !.error = c.error]
    ELSE [m EXCEPT !.conversion_done = TRUE]

\* OrganizationPipeline.process_track(mapping, dirs, split) on source file f:
\* the mapping it returns (the object it was given, modified in place) and the
\* state of the output file; left says what a failed write leaves behind, copied
\* whether the output file was made by shutil.copy2 and so holds the bytes of f
process_track(m, f, ds, split, left) ==
    LET dest_dir == IF split # <<>> /\ AudioDir(split[1]) \in ds
                    THEN AudioDir(split[1]) ELSE "audio"
        m1 == [m EXCEPT !.new_path = <<dest_dir, m.new_filename>>]
    IN  IF m.needs_conversion
        THEN LET c == convert_audio(f)
             IN  [mapping |-> ConvertOutcome(m1, c),
                  file    |-> IF c.success THEN "complete" ELSE left,
                  copied  |-> FALSE]
        ELSE IF f.copy_ok
             THEN [mapping |-> m1, file |-> "complete", copied |-> TRUE]
             ELSE [mapping |-> [m1 EXCEPT !.error = <<"copy2">>], file |-> left,
                   copied |-> FALSE]

\* the TrackMapping planned for the i-th (1-based) file of the list, which is the
\* source file f at path p
NewMapping(i, p, f) ==
    LET track_id   == generate_track_id(i, id_padding, prefix)
        audio_info == get_audio_info(f)
    IN  [original_path |-> p, original_filename |-> p,
         new_track_id |-> track_id,
         new_filename |-> [id |-> track_id, ext |-> target_ext],
         new_path |-> <<>>,
         audio_info |-> audio_info,
         needs_conversion |-> IF audio_info.is_valid
                              THEN needs_conversion(audio_info) ELSE TRUE,
         conversion_done |-> FALSE,
         error |-> NoError]

(***************************************************************************)
(* organization_pipeline.py: organize_dataset and _generate_metadata.      *)
(***************************************************************************)
NewOrgResult ==
    [total_tracks |-> 0, successfully_processed |-> 0, failed |-> 0,
     skipped_invalid |-> 0, tracks_needing_conversion |-> 0,
     total_output_size_bytes |-> 0, total_duration_sec |-> 0,
     split_distribution |-> <<>>, track_mappings |-> <<>>, errors |-> <<>>]

NoArtifacts == [tracks |-> <<>>, splits |-> <<>>, dataset_info |-> <<>>]

\* the numbers of set K in ascending order: what a comprehension over a list
\* keeps, as positions
RECURSIVE Ascending(_)
Ascending(K) ==
    IF K = {} THEN <<>>
    ELSE LET least == CHOOSE k \in K : \A j \in K : k <= j
         IN  <<least>> \o Ascending(K \ {least})

\* step 1 of organize_dataset, after validate_dataset has returned rep: the paths
\* of the valid results
ValidFiles(rep) ==
    {rep.file_results[i].filepath :
        i \in {j \in 1..Len(rep.file_results) : rep.file_results[j].is_valid}}

\* "result.skipped_invalid += 1" for every result that is not valid
SkippedInvalid(rep) ==
    Cardinality({j \in 1..Len(rep.file_results) : ~rep.file_results[j].is_valid})

\* step 2: find_audio_files(source), filtered to the valid files when
\* validate_first and skip_invalid; the list holds paths (indices of audio_files)
FilterFiles(files, a, valid_files) ==
    IF a.validate_first /\ a.skip_invalid
    THEN Ascending({p \in 1..Len(files) : p \in valid_files})
    ELSE [p \in 1..Len(files) |-> p]

\* {s: splits.count(s) for s in set(splits)}
SplitCounts(sp) ==
    [s \in {sp[k] : k \in 1..Len(sp)} |->
        Cardinality({k \in 1..Len(sp) : sp[k] = s})]

\* step 5: one TrackMapping per file of the list, in list order
PlanTracks(files, tree) ==
    [i \in 1..Len(files) |-> NewMapping(i, files[i], tree[files[i]])]

\* the size os.path.getsize gives for the output file of mapping m
OutputSize(m, file, tree) ==
    IF file = "complete" THEN tree[m.original_path].size ELSE 1

\* step 8: the sum of the sizes of the output files that exist
TotalOutputSize(ms, dk, tree) ==
    SeqSum([i \in 1..Len(ms) |->
               IF ms[i].new_path # <<>> /\ dk[i] # "absent"
               THEN OutputSize(ms[i], dk[i], tree) ELSE 0])

\* the entry of tracks.json for mapping i
TrackInfo(ms, sp, i) ==
    [track_id |-> ms[i].new_track_id, filename |-> ms[i].new_filename,
     original_filename |-> ms[i].original_filename,
     split |-> IF sp # <<>> THEN <<sp[1][i]>> ELSE <<>>,
     duration_sec |-> ms[i].audio_info.duration_sec,
     sample_rate |-> ms[i].audio_info.sample_rate,
     channels |-> ms[i].audio_info.channels,
     original_format |-> ms[i].audio_info.format,
     was_converted |-> ms[i].conversion_done]

\* splits.json built from the list of the mappings without error, enumerated
\* anew: the k-th of them is given the label of position k
SplitIdsOfFiltered(ms, sp, s) ==
    LET ok  == Ascending({i \in 1..Len(ms) : ~Truthy(ms[i].error)})
        pos == Ascending({k \in 1..Len(ok) : sp[1][k] = s})
    IN  [k \in 1..Len(pos) |-> ms[ok[pos[k]]].new_track_id]

\* the track ids of the mappings of split s that carry no (truthy) error
SplitIds(ms, sp, s) ==
    LET pos == Ascending({i \in 1..Len(ms) :
                             sp[1][i] = s /\ ~Truthy(ms[i].error)})
    IN  [k \in 1..Len(pos) |-> ms[pos[k]].new_track_id]

\* _generate_metadata(output, dirs, mappings, splits, result): the three files;
\* splits.json is written only "if splits"
generate_metadata(ms, sp, res) ==
    LET pos == Ascending({i \in 1..Len(ms) : ~Truthy(ms[i].error)})
    IN  [tracks |-> <<[k \in 1..Len(pos) |-> TrackInfo(ms, sp, pos[k])]>>,
         splits |-> IF sp # <<>>
                    THEN <<[train |-> SplitIds(ms, sp, "train"),
                            val   |-> SplitIds(ms, sp, "val"),
                            test  |-> SplitIds(ms, sp, "test")]>>
                    ELSE <<>>,
         dataset_info |-> <<[total_tracks |-> res.successfully_processed,
                             total_duration_sec |-> res.total_duration_sec,
                             total_size_bytes |-> res.total_output_size_bytes,
                             split_distribution |-> res.split_distribution]>>]

\* one pass of the as_completed loop of step 6 on the processed mapping m
CollectMapping(res, m) ==
    IF Truthy(m.error)
    THEN [res EXCEPT !.failed = @ + 1,
                     !.errors = Append(@, [track |-> m.original_filename,
                                           error |-> m.error[1]])]
    ELSE [res EXCEPT !.successfully_processed = @ + 1,
                     !.total_duration_sec =
                         FloatAdd(@, m.audio_info.duration_sec)]

(***************************************************************************)
(* SpecOrg: organize_dataset(source, output, validate_first, skip_invalid, *)
(* create_splits, max_workers) with the default rules.  The optional       *)
(* validation is the validate_dataset of Spec, run to its end first; the   *)
(* tracks are then processed by process_track tasks in a second pool.      *)
(***************************************************************************)
\* a source file whose bytes hash to c: what the probe reports is at the target
\* specification; convert is how ffmpeg ends if asked to transcode it, copy_ok
\* whether shutil.copy2 succeeds on it
SourceFile(c, convert, copy_ok) ==
    [probe_ok |-> TRUE, duration_sec |-> 5, sample_rate |-> sample_rate,
     channels |-> channels, bit_depth |-> bit_depth, format |-> "wav",
     ext |-> "wav", size |-> 100 * c, integrity_ok |-> TRUE, readable |-> TRUE,
     content |-> c, convert |-> convert, copy_ok |-> copy_ok]

\* the files a source tree is made of: at specification and copied; at
\* specification but the copy fails; at 48000 Hz and transcoded; an mp3 whose
\* transcoding fails with a message; at 48000 Hz with a transcoding that fails
\* without a message; not probeable, transcoding fails with a message; and a copy
\* of the first that cannot be read when it is hashed
SourceFiles ==
    {SourceFile(1, "ok", TRUE),
     SourceFile(2, "ok", FALSE),
     [SourceFile(3, "ok", TRUE) EXCEPT !.sample_rate = 48000],
     [SourceFile(4, "error", TRUE) EXCEPT !.ext = "mp3", !.format = "mp3"],
     [SourceFile(5, "empty", TRUE) EXCEPT !.sample_rate = 48000],
     [SourceFile(6, "error", TRUE) EXCEPT !.probe_ok = FALSE,
                                          !.integrity_ok = FALSE],
     [SourceFile(1, "ok", TRUE) EXCEPT !.readable = FALSE]}

\* the source trees: every sequence of at most MaxOrgFiles files
SourceTrees == UNION {[1..n -> SourceFiles] : n \in 0..MaxOrgFiles}

OrgArgs ==
    [validate_first : BOOLEAN, skip_invalid : BOOLEAN, create_splits : BOOLEAN]

\* config.structure: use_splits_subdirs is <<>> on a DirectoryStructure as the
\* dataclass declares it, <<b>> when the caller has set the attribute to b
Structures == [use_splits_subdirs : {<<>>, <<TRUE>>, <<FALSE>>}]

Tracks == 1..Len(mappings)

InitOrg ==
    /\ SplitIdle
    /\ FileIdle
    /\ cfg = DEFAULT_CONFIG
    /\ audio_files \in SourceTrees
    /\ vpc = "idle"
    /\ task = [p \in Paths |-> "new"]
    /\ future = [p \in Paths |-> <<>>]
    /\ loc = NewLocals
    /\ report = NewReport
    /\ pool = "none"
    /\ tie = FALSE
    /\ args \in OrgArgs
    /\ structure \in Structures
    /\ opc = "start"
    /\ org_result = NewOrgResult
    /\ mappings = <<>>
    /\ track_splits = <<>>
    /\ otask = <<>>
    /\ disk = <<>>
    /\ dirs = {}
    /\ artifacts = NoArtifacts
    /\ phases = <<>>
    /\ PlanIdle
    /\ CliIdle
    /\ AsyncIdle

\* organize_dataset up to the call of validate_dataset, or up to step 2 when
\* validate_first is false
OrgStart ==
    /\ opc = "start"
    /\ IF args.validate_first
       THEN opc' = "validate" /\ vpc' = "start"
            /\ phases' = <<"START", "VALIDATE">>
       ELSE opc' = "discover" /\ vpc' = vpc /\ phases' = <<"START">>
    /\ UNCHANGED <<audio_files, task, future, loc, report, pool, tie, cfg,
                   splitVars, fileVars, args, structure, org_result, mappings,
                   track_splits, otask, disk, dirs, artifacts, planVars, cliVars, asyncVars>>

\* validate_dataset raised: organize_dataset has no handler around the call
OrgValidateRaised ==
    /\ opc = "validate"
    /\ vpc = "raised"
    /\ opc' = "raised"
    /\ UNCHANGED <<valVars, cfg, splitVars, fileVars, args, structure, org_result,
                   mappings, track_splits, otask, disk, dirs, artifacts, phases, planVars, cliVars, asyncVars>>

\* organize_dataset without "if result.total_tracks == 0: return result"
NoEarlyReturn(total) == FALSE

\* the test of the early return of step 2
NoTracks(total) == total = 0

\* an organize_dataset that goes on while validate_dataset is still collecting
ValidationUnderWay == vpc \in {"collect", "done"}

\* the call of validate_dataset at step 1 has returned its report
ValidationReturned == vpc = "done"

\* steps 1 (after validate_dataset has returned) to 6 (submission): the valid
\* files and skipped_invalid, the file list, the early return without tracks,
\* the directories, the splits, the mappings, and one task per mapping
OrgPrepare ==
    /\ opc = "discover" \/ (opc = "validate" /\ ValidationReturned)
    /\ LET valid_files == IF args.validate_first THEN ValidFiles(report) ELSE {}
           skipped     == IF args.validate_first THEN SkippedInvalid(report) ELSE 0
           files       == FilterFiles(audio_files, args, valid_files)
           total       == Len(files)
           res1        == [org_result EXCEPT !.skipped_invalid = skipped,
                                         !.total_tracks = total]
           ph1         == phases \o <<"DISCOVER_FILES">>
                            \o (IF args.validate_first /\ args.skip_invalid
                                THEN <<"FILTER_INVALID">> ELSE <<>>)
           d           == create_directory_structure(structure)
           a           == assign_splits(rng, total, 80, 10, 10, 42)
           sp          == IF args.create_splits /\ structure.use_splits_subdirs[1]
                          THEN <<a.splits>> ELSE <<>>
           ms          == PlanTracks(files, audio_files)
       IN  IF NoTracks(total)
           THEN /\ org_result' = res1
                /\ opc' = "done"
                /\ phases' = ph1 \o <<"DONE">>
                /\ UNCHANGED <<rng, mappings, track_splits, otask, disk, dirs>>
           ELSE IF d.raised
           THEN /\ org_result' = res1
                /\ opc' = "raised"
                /\ dirs' = d.dirs
                /\ phases' = ph1 \o <<"CREATE_DIRS">>
                /\ UNCHANGED <<rng, mappings, track_splits, otask, disk>>
           ELSE /\ org_result' =
                     [res1 EXCEPT
                        !.split_distribution =
                            IF sp # <<>> THEN SplitCounts(sp[1]) ELSE <<>>,
                        !.tracks_needing_conversion =
                            Cardinality({i \in 1..total : ms[i].needs_conversion})]
                /\ opc' = "execute"
                /\ dirs' = d.dirs
                /\ rng' = IF sp # <<>> THEN a.rng ELSE rng
                /\ track_splits' = sp
                /\ mappings' = ms
                /\ otask' = [i \in 1..total |-> "queued"]
                /\ disk' = [i \in 1..total |-> "absent"]
                /\ phases' = ph1 \o <<"CREATE_DIRS">>
                               \o (IF sp # <<>> THEN <<"ASSIGN_SPLITS">> ELSE <<>>)
                               \o <<"PLAN_TRACKS", "EXECUTE">>
    /\ UNCHANGED <<valVars, cfg, call, ref, refSplits, others, fileVars, args,
                   structure, artifacts, planVars, cliVars, asyncVars>>

OrgRunning == {i \in Tracks : otask[i] = "running"}

\* a pool that runs a task again after it has finished: the mapping is handed
\* to a second process_track call
OrgWorkerRestart(i) ==
    /\ opc = "execute"
    /\ otask[i] \in {"queued", "finished"}
    /\ Cardinality(OrgRunning) < max_workers
    /\ otask' = [otask EXCEPT ![i] = "running"]
    /\ UNCHANGED <<valVars, cfg, splitVars, fileVars, args, structure, opc,
                   org_result, mappings, track_splits, disk, dirs, artifacts,
                   phases, planVars, cliVars, asyncVars>>

\* a pool thread takes the oldest queued process_track task
OrgWorkerStart(i) ==
    /\ opc = "execute"
    /\ otask[i] = "queued"
    /\ \A j \in Tracks : j < i => otask[j] # "queued"
    /\ Cardinality(OrgRunning) < max_workers
    /\ otask' = [otask EXCEPT ![i] = "running"]
    /\ UNCHANGED <<valVars, cfg, splitVars, fileVars, args, structure, opc,
                   org_result, mappings, track_splits, disk, dirs, artifacts, phases, planVars, cliVars, asyncVars>>

\* the task ends: process_track has written the outcome on its mapping object
\* and made, or failed to make, the output file
OrgWorkerFinish(i) ==
    /\ opc = "execute"
    /\ otask[i] = "running"
    /\ \E left \in {"absent", "partial"} :
          LET m     == mappings[i]
              split == IF track_splits # <<>> THEN <<track_splits[1][i]>> ELSE <<>>
              r     == process_track(m, audio_files[m.original_path], dirs,
                                     split, left)
          IN  /\ mappings' = [mappings EXCEPT ![i] = r.mapping]
              /\ disk' = [disk EXCEPT ![i] = r.file]
    /\ otask' = [otask EXCEPT ![i] = "finished"]
    /\ UNCHANGED <<valVars, cfg, splitVars, fileVars, args, structure, opc,
                   org_result, track_splits, dirs, artifacts, phases, planVars, cliVars, asyncVars>>

\* one pass of "for i, future in enumerate(as_completed(futures))" of step 6;
\* after the last one: result.track_mappings, _generate_metadata (step 7), the
\* output size (step 8) and the return
OrgCollect(i) ==
    /\ opc = "execute"
    /\ otask[i] = "finished"
    /\ otask' = [otask EXCEPT ![i] = "collected"]
    /\ LET res  == CollectMapping(org_result, mappings[i])
           res2 == [res EXCEPT !.track_mappings = mappings]
       IN  IF \A j \in Tracks : otask'[j] = "collected"
           THEN /\ artifacts' = generate_metadata(mappings, track_splits, res2)
                /\ org_result' = [res2 EXCEPT !.total_output_size_bytes =
                                 TotalOutputSize(mappings, disk, audio_files)]
                /\ opc' = "done"
                /\ phases' = phases \o <<"GENERATE_METADATA", "DONE">>
           ELSE /\ org_result' = res
                /\ UNCHANGED <<artifacts, opc, phases>>
    /\ UNCHANGED <<valVars, cfg, splitVars, fileVars, args, structure, mappings,
                   track_splits, disk, dirs, planVars, cliVars, asyncVars>>

NextOrg ==
    \/ OrgStart
    \/ ValidateDatasetStart
    \/ \E p \in Paths : WorkerStart(p)
    \/ \E p \in Paths : WorkerFinish(p)
    \/ \E p \in Paths : Collect(p)
    \/ AbortRaise
    \/ OrgValidateRaised
    \/ OrgPrepare
    \/ \E i \in Tracks : OrgWorkerStart(i)
    \/ \E i \in Tracks : OrgWorkerFinish(i)
    \/ \E i \in Tracks : OrgCollect(i)

SpecOrg == InitOrg /\ [][NextOrg]_vars

\* SpecOrg with its scheduling: the main thread and the pool threads keep running,
\* and every call of an external tool returns (ffprobe and ffmpeg are run with a
\* timeout), so a step that can be taken is eventually taken
SpecOrgLive == InitOrg /\ [][NextOrg]_vars /\ WF_vars(NextOrg)

(***************************************************************************)
(* SpecPlan: step 5 of organize_dataset, the planning loop, on any file    *)
(* list, run twice, with process_track on every planned track; and         *)
(* generate_track_id on indices below and above the padding width.         *)
(***************************************************************************)
\* the files planned: at the target specification; the same named .WAV; the
\* same with no bit depth reported; the same but shutil.copy2 fails on it; at
\* 48000 Hz; mono; at 24 bits; an mp3; and one that ffprobe cannot read
PlanFiles ==
    {SourceFile(1, "ok", TRUE),
     [SourceFile(1, "ok", TRUE) EXCEPT !.ext = "WAV"],
     [SourceFile(1, "ok", TRUE) EXCEPT !.bit_depth = NoBitDepth],
     SourceFile(2, "ok", FALSE),
     [SourceFile(3, "ok", TRUE) EXCEPT !.sample_rate = 48000],
     [SourceFile(3, "ok", TRUE) EXCEPT !.channels = 1],
     [SourceFile(3, "ok", TRUE) EXCEPT !.bit_depth = 24],
     [SourceFile(3, "ok", TRUE) EXCEPT !.ext = "mp3", !.format = "mp3",
                                       !.bit_depth = NoBitDepth],
     [SourceFile(3, "error", TRUE) EXCEPT !.probe_ok = FALSE]}

\* track indices with up to id_padding digits, and with more
PlanIndices == {1, 2, 9, 10, 99999, 100000, 100001}

\* a tree of at most MaxOrgFiles files, the paths that the filter of step 2 keeps
\* (all of them when nothing is filtered), and two track indices
PlanArgs ==
    UNION {[tree : [1..n -> PlanFiles], keep : SUBSET (1..n),
            i : PlanIndices, j : PlanIndices] : n \in 0..MaxOrgFiles}

\* the mappings of the kept files in sorted order, what process_track makes of
\* each of them in the flat audio directory, and the ids of the two indices
Planning(a) ==
    [mappings |-> PlanTracks(Ascending(a.keep), a.tree),
     tracks   |-> LET ms == PlanTracks(Ascending(a.keep), a.tree)
                  IN  [k \in 1..Len(ms) |->
                          process_track(ms[k], a.tree[ms[k].original_path],
                                        BaseDirs, <<>>, "absent")],
     id_i     |-> generate_track_id(a.i, id_padding, prefix),
     id_j     |-> generate_track_id(a.j, id_padding, prefix)]

InitPlan ==
    /\ SplitIdle
    /\ FileIdle
    /\ cfg = DEFAULT_CONFIG
    /\ ValIdle
    /\ OrgIdle
    /\ planArg \in PlanArgs
    /\ planRes = <<>>
    /\ planAgain = <<>>
    /\ CliIdle
    /\ AsyncIdle

\* the planning loop runs on the list
PlanCall ==
    /\ planRes = <<>>
    /\ planRes' = <<Planning(planArg)>>
    /\ UNCHANGED <<cfg, splitVars, fileVars, valVars, orgVars, planArg, planAgain,
                   cliVars, asyncVars>>

\* the planning loop runs on the same list a second time
PlanAgainCall ==
    /\ planRes # <<>>
    /\ planAgain = <<>>
    /\ planAgain' = <<Planning(planArg)>>
    /\ UNCHANGED <<cfg, splitVars, fileVars, valVars, orgVars, planArg, planRes,
                   cliVars, asyncVars>>

NextPlan == PlanCall \/ PlanAgainCall

SpecPlan == InitPlan /\ [][NextPlan]_vars

(***************************************************************************)
(* SpecCli: main.py.  main() parses the command line and calls cmd_validate,*)
(* cmd_organize or cmd_full; the value returned is handed to sys.exit.  An *)
(* exception that leaves main() ends the interpreter with status 1.        *)
(***************************************************************************)
\* the command lines: "validate" (integrity check on), "organize" with
\* --no-validate, --include-invalid and --no-splits either way, "full" with
\* --include-invalid and --no-splits either way; --format is left at its default
CliArgs ==
    [command : {"validate"}, no_validate : {FALSE}, include_invalid : {FALSE},
     no_splits : {FALSE}]
    \cup [command : {"organize"}, no_validate : BOOLEAN,
          include_invalid : BOOLEAN, no_splits : BOOLEAN]
    \cup [command : {"full"}, no_validate : {FALSE}, include_invalid : BOOLEAN,
          no_splits : BOOLEAN]

\* the arguments cmd_organize and cmd_full hand to organize_dataset; cmd_full has
\* validated already and passes validate_first=False
OrganizeArgs(c) ==
    [validate_first |-> IF c.command = "full" THEN FALSE ELSE ~c.no_validate,
     skip_invalid   |-> ~c.include_invalid,
     create_splits  |-> ~c.no_splits]

\* "return 0 if report.invalid_audio_files == 0 else 1"
ValidateStatus(rep) == IF rep.invalid_audio_files = 0 THEN 0 ELSE 1

\* "return 0 if result.failed == 0 else 1"
OrganizeStatus(res) == IF res.failed = 0 THEN 0 ELSE 1

\* the status of an interpreter that ends on an uncaught exception
UncaughtStatus == 1

InitCli ==
    /\ SplitIdle
    /\ FileIdle
    /\ cfg = DEFAULT_CONFIG
    /\ audio_files \in SourceTrees
    /\ vpc = "idle"
    /\ task = [p \in Paths |-> "new"]
    /\ future = [p \in Paths |-> <<>>]
    /\ loc = NewLocals
    /\ report = NewReport
    /\ pool = "none"
    /\ tie = FALSE
    /\ cli \in CliArgs
    /\ cpc = "start"
    /\ exit_code = <<>>
    /\ IF cli.command = "validate"
       THEN args = <<>> /\ structure = <<>>
       ELSE args = OrganizeArgs(cli) /\ structure \in Structures
    /\ opc = "idle"
    /\ org_result = NewOrgResult
    /\ mappings = <<>>
    /\ track_splits = <<>>
    /\ otask = <<>>
    /\ disk = <<>>
    /\ dirs = {}
    /\ artifacts = NoArtifacts
    /\ phases = <<>>
    /\ PlanIdle
    /\ AsyncIdle

\* main() dispatches: cmd_validate and cmd_full call validate_dataset,
\* cmd_organize calls organize_dataset
CliStart ==
    /\ cpc = "start"
    /\ IF cli.command = "organize"
       THEN cpc' = "organize" /\ opc' = "start" /\ vpc' = vpc
       ELSE cpc' = "validate" /\ vpc' = "start" /\ opc' = opc
    /\ UNCHANGED <<audio_files, task, future, loc, report, pool, tie, cfg,
                   splitVars, fileVars, args, structure, org_result, mappings,
                   track_splits, otask, disk, dirs, artifacts, phases, planVars,
                   cli, exit_code, asyncVars>>

\* cmd_validate: validate_dataset has returned the report
CliValidateReturn ==
    /\ cpc = "validate" /\ cli.command = "validate"
    /\ vpc = "done"
    /\ cpc' = "exited"
    /\ exit_code' = <<ValidateStatus(report)>>
    /\ UNCHANGED <<valVars, cfg, splitVars, fileVars, orgVars, planVars, cli,
                   asyncVars>>

\* cmd_full: the report is saved, then organize_dataset is called
CliFullOrganize ==
    /\ cpc = "validate" /\ cli.command = "full"
    /\ vpc = "done"
    /\ cpc' = "organize"
    /\ opc' = "start"
    /\ UNCHANGED <<valVars, cfg, splitVars, fileVars, args, structure, org_result,
                   mappings, track_splits, otask, disk, dirs, artifacts, phases,
                   planVars, cli, exit_code, asyncVars>>

\* cmd_organize and cmd_full: organize_dataset has returned the result
CliOrganizeReturn ==
    /\ cpc = "organize"
    /\ opc = "done"
    /\ cpc' = "exited"
    /\ exit_code' = <<OrganizeStatus(org_result)>>
    /\ UNCHANGED <<valVars, cfg, splitVars, fileVars, orgVars, planVars, cli,
                   asyncVars>>

\* an exception of validate_dataset or organize_dataset leaves main(): nothing
\* in main.py catches
CliRaised ==
    /\ \/ cpc = "validate" /\ vpc = "raised"
       \/ cpc = "organize" /\ opc = "raised"
    /\ cpc' = "exited"
    /\ exit_code' = <<UncaughtStatus>>
    /\ UNCHANGED <<valVars, cfg, splitVars, fileVars, orgVars, planVars, cli,
                   asyncVars>>

NextCli ==
    \/ CliStart
    \/ CliValidateReturn
    \/ CliFullOrganize
    \/ CliOrganizeReturn
    \/ CliRaised
    \/ OrgStart
    \/ ValidateDatasetStart
    \/ \E p \in Paths : WorkerStart(p)
    \/ \E p \in Paths : WorkerFinish(p)
    \/ \E p \in Paths : Collect(p)
    \/ AbortRaise
    \/ OrgValidateRaised
    \/ OrgPrepare
    \/ \E i \in Tracks : OrgWorkerStart(i)
    \/ \E i \in Tracks : OrgWorkerFinish(i)
    \/ \E i \in Tracks : OrgCollect(i)

SpecCli == InitCli /\ [][NextCli]_vars

(***************************************************************************)
(* SpecAsync: organize.py.  organize() creates one processar_arquivo_async *)
(* coroutine per blob and runs them with asyncio.gather on one event loop: *)
(* a coroutine runs without interruption from one await to the next.  The  *)
(* awaits are the semaphore, storage.download and the two storage.upload   *)
(* calls.                                                                  *)
(***************************************************************************)
\* a blob of the origin bucket: the digest of its bytes (calcular_hash of what
\* storage.download returns) and whether the download succeeds
Blobs == [content : {1, 2}, download_ok : BOOLEAN]

\* meus_arquivos: at most MaxBlobs blobs
BlobLists == UNION {[1..n -> Blobs] : n \in 1..MaxBlobs}

Coroutines == 1..Len(blobs)

\* the coroutines inside "async with semaphore"
Holding == {i \in Coroutines : apc[i] \in {"download", "upload", "metadata"}}

\* the coroutines whose audio upload was started
Uploaders == {uploads[k] : k \in 1..Len(uploads)}

\* a coroutine that adds the hash to the set only after it has awaited the
\* upload: at the end of the check the set is as it was
AddAfterUpload(hs, h) == hs

\* hashes_processados.add(hash_arquivo), in the same run as the membership test
AddHash(hs, h) == hs \cup {h}

InitAsync ==
    /\ SplitIdle
    /\ FileIdle
    /\ cfg = DEFAULT_CONFIG
    /\ ValIdle
    /\ OrgIdle
    /\ PlanIdle
    /\ CliIdle
    /\ blobs \in BlobLists
    /\ apc = [i \in Coroutines |-> "semaphore"]
    /\ hashes_processados = {}
    /\ resultado = [i \in Coroutines |-> "pendente"]
    /\ uploads = <<>>

\* "async with semaphore": the coroutine enters when the semaphore has a free
\* slot, the waiters in the order of their creation; it then calls
\* storage.download and is suspended
AsyncAcquire(i) ==
    /\ apc[i] = "semaphore"
    /\ \A j \in Coroutines : j < i => apc[j] # "semaphore"
    /\ Cardinality(Holding) < max_concurrent
    /\ apc' = [apc EXCEPT ![i] = "download"]
    /\ UNCHANGED <<cfg, splitVars, fileVars, valVars, orgVars, planVars, cliVars,
                   blobs, hashes_processados, resultado, uploads>>

\* storage.download has answered and the coroutine runs to its next await: on an
\* exception it ends with "falha"; else it hashes the content, tests the set,
\* ends with "ignorado_duplicado" on a hit, else adds the hash, computes the
\* duration and the name, and calls storage.upload for the audio
AsyncDownloaded(i) ==
    /\ apc[i] = "download"
    /\ LET hash_arquivo == blobs[i].content
           is_duplicado == hash_arquivo \in hashes_processados
       IN  IF ~blobs[i].download_ok
           THEN /\ resultado' = [resultado EXCEPT ![i] = "falha"]
                /\ apc' = [apc EXCEPT ![i] = "done"]
                /\ UNCHANGED <<hashes_processados, uploads>>
           ELSE IF is_duplicado
           THEN /\ resultado' = [resultado EXCEPT ![i] = "ignorado_duplicado"]
                /\ apc' = [apc EXCEPT ![i] = "done"]
                /\ UNCHANGED <<hashes_processados, uploads>>
           ELSE /\ hashes_processados' = AddHash(hashes_processados, hash_arquivo)
                /\ uploads' = Append(uploads, i)
                /\ apc' = [apc EXCEPT ![i] = "upload"]
                /\ UNCHANGED resultado
    /\ UNCHANGED <<cfg, splitVars, fileVars, valVars, orgVars, planVars, cliVars,
                   blobs>>

\* the audio upload has answered: on an exception the coroutine ends with
\* "falha"; else the status becomes "sucesso" and the metadata upload is called
AsyncUploaded(i) ==
    /\ apc[i] = "upload"
    /\ \E ok \in BOOLEAN :
          IF ok
          THEN /\ resultado' = [resultado EXCEPT ![i] = "sucesso"]
               /\ apc' = [apc EXCEPT ![i] = "metadata"]
          ELSE /\ resultado' = [resultado EXCEPT ![i] = "falha"]
               /\ apc' = [apc EXCEPT ![i] = "done"]
    /\ UNCHANGED <<cfg, splitVars, fileVars, valVars, orgVars, planVars, cliVars,
                   blobs, hashes_processados, uploads>>

\* the metadata upload has answered: the coroutine returns its resultado, with
\* status "falha" if the upload raised; the semaphore is released
AsyncMetadataUploaded(i) ==
    /\ apc[i] = "metadata"
    /\ \E ok \in BOOLEAN :
          resultado' = [resultado EXCEPT ![i] = IF ok THEN @ ELSE "falha"]
    /\ apc' = [apc EXCEPT ![i] = "done"]
    /\ UNCHANGED <<cfg, splitVars, fileVars, valVars, orgVars, planVars, cliVars,
                   blobs, hashes_processados, uploads>>

NextAsync ==
    \/ \E i \in Coroutines : AsyncAcquire(i)
    \/ \E i \in Coroutines : AsyncDownloaded(i)
    \/ \E i \in Coroutines : AsyncUploaded(i)
    \/ \E i \in Coroutines : AsyncMetadataUploaded(i)

SpecAsync == InitAsync /\ [][NextAsync]_vars

(***************************************************************************)
(* Claims about assign_splits.                                             *)
(***************************************************************************)
SplitNames == {"train", "val", "test"}

Count(splits, label) == Cardinality({i \in 1..Len(splits) : splits[i] = label})

\* C1: for every N, ratios and seed the list assign_splits returns has length N,
\* every index carries one label of train / val / test (none is left unlabelled)
\* and the three label counts add up to N.
C1_SplitsPartition ==
    call # <<>> =>
        LET c == call[1]
        IN  /\ Len(c.splits) = c.n
            /\ \A i \in 1..c.n : c.splits[i] \in SplitNames
            /\ Count(c.splits, "train") + Count(c.splits, "val")
                   + Count(c.splits, "test") = c.n

\* a call on three or more items that returned all three labels
C1_Witness ==
    /\ call # <<>>
    /\ call[1].n >= 3
    /\ \A l \in SplitNames : Count(call[1].splits, l) >= 1

\* C2: with train_ratio + val_ratio <= 1 exactly floor(N * train_ratio) indices are
\* labelled train, exactly floor(N * val_ratio) val, and all the others test.
C2_SplitSizes ==
    (call # <<>> /\ call[1].train + call[1].val <= 100) =>
        LET c  == call[1]
            nt == (c.n * c.train) \div 100
            nv == (c.n * c.val) \div 100
        IN  /\ Count(c.splits, "train") = nt
            /\ Count(c.splits, "val") = nv
            /\ Count(c.splits, "test") = c.n - nt - nv

\* the documented example: N = 10 with 0.8 / 0.1 and seed 42 gave 8 / 1 / 1
C2_Witness ==
    /\ call # <<>>
    /\ call[1].n = 10 /\ call[1].train = 80 /\ call[1].val = 10 /\ call[1].seed = 42
    /\ Count(call[1].splits, "train") = 8
    /\ Count(call[1].splits, "val") = 1
    /\ Count(call[1].splits, "test") = 1

CallKey(c) == [n |-> c.n, train |-> c.train, val |-> c.val, seed |-> c.seed]

\* C3: a call with the same N, ratios and seed as the first call returns the same
\* list as the first call did, whatever calls were made in between.
C3_SplitsDeterministic ==
    (call # <<>> /\ <<CallKey(call[1])>> = ref) => call[1].splits = refSplits[1]

\* the first call's arguments were used again after a call with other arguments,
\* on a list long enough to be shuffled
C3_Witness ==
    /\ call # <<>>
    /\ others
    /\ <<CallKey(call[1])>> = ref
    /\ call[1].n >= 3

(***************************************************************************)
(* Claims about validate_audio_file (SpecFile).                            *)
(***************************************************************************)
\* an issue string of the given kind is among the issues
HasIssue(r, kind) == \E i \in 1..Len(r.issues) : r.issues[i] = kind

\* the enabled checks the file violates, judged on what the probe reports
TooShort(f, c) == c.check_duration_range /\ f.duration_sec < min_duration_sec

TooLong(f, c) ==
    c.check_duration_range /\ c.max_duration_sec # NoMaxDuration
        /\ f.duration_sec > c.max_duration_sec

WrongRate(f, c) == c.check_sample_rate /\ f.sample_rate # sample_rate

WrongChannels(f, c) == c.check_channels /\ f.channels # channels

\* the integrity check is enabled, was requested, and the full decode fails
BadIntegrity(f, c, check_integrity) ==
    check_integrity /\ c.check_audio_integrity /\ ~f.integrity_ok

\* C4: a returned result has is_valid false whenever the probe failed or the file
\* violates an enabled check (duration range, sample rate, channels, requested
\* integrity); for each violated enabled check its flag is false and an issue of
\* its kind is listed.
C4_InvalidWhenCheckFails ==
    (fileRes # <<>> /\ ~fileRes[1].raised) =>
        LET r  == fileRes[1]
            f  == fileArg[1]
            ci == fileArg[2]
        IN  /\ ~f.probe_ok => (~r.is_valid /\ HasIssue(r, IssueProbe))
            /\ (f.probe_ok /\ TooShort(f, cfg)) =>
                   (~r.is_valid /\ ~r.duration_ok /\ HasIssue(r, IssueShort))
            /\ (f.probe_ok /\ TooLong(f, cfg)) =>
                   (~r.is_valid /\ ~r.duration_ok /\ HasIssue(r, IssueLong))
            /\ (f.probe_ok /\ WrongRate(f, cfg)) =>
                   (~r.is_valid /\ ~r.sample_rate_ok /\ HasIssue(r, IssueRate))
            /\ (f.probe_ok /\ WrongChannels(f, cfg)) =>
                   (~r.is_valid /\ ~r.channels_ok /\ HasIssue(r, IssueChannels))
            /\ (f.probe_ok /\ BadIntegrity(f, cfg, ci)) =>
                   (~r.is_valid /\ ~r.integrity_ok /\ HasIssue(r, IssueIntegrity))

\* the documented case: probed 48000 Hz against the 44100 Hz of the specification,
\* nothing else wrong: sample_rate_ok is false and the issue is listed
C4_Witness ==
    /\ fileRes # <<>> /\ ~fileRes[1].raised
    /\ fileArg[1].probe_ok /\ fileArg[1].sample_rate = 48000
    /\ cfg.check_sample_rate
    /\ ~fileRes[1].sample_rate_ok /\ ~fileRes[1].is_valid
    /\ fileRes[1].issues = <<IssueRate>>

\* C6: validate_audio_file never raises to its caller: every failure of the probe,
\* the integrity check and the two hash computations is encoded in the result.
C6_NeverRaises == fileRes # <<>> => ~fileRes[1].raised

(***************************************************************************)
(* Claims about validate_dataset (Spec).                                   *)
(***************************************************************************)
\* C5: validate_dataset over a non-empty file set never aborts because one file
\* fails: it does not raise, and the report it returns holds one result for every
\* audio file.
C5_NoAbortOnFileFailure ==
    /\ vpc # "raised"
    /\ vpc = "done" =>
          \A p \in Paths :
              Cardinality({i \in 1..Len(report.file_results) :
                              report.file_results[i].filepath = p}) = 1

\* the groups of duplicates_found that list path p
GroupsOf(p) ==
    {g \in 1..Len(report.duplicates_found) :
        \E i \in 1..Len(report.duplicates_found[g].files) :
            report.duplicates_found[g].files[i] = p}

\* no path is listed in two groups or twice in a group; no group has under two paths
GroupsWellFormed ==
    /\ \A p \in Paths :
          /\ Cardinality(GroupsOf(p)) <= 1
          /\ \A g \in GroupsOf(p) :
                Cardinality({i \in 1..Len(report.duplicates_found[g].files) :
                                report.duplicates_found[g].files[i] = p}) = 1
    /\ \A g \in 1..Len(report.duplicates_found) :
          Len(report.duplicates_found[g].files) >= 2

\* C7 as stated: in a returned report any two audio files with the same
\* byte-content hash are together in exactly one group, no path is in more than
\* one group and no group has fewer than two paths.
C7_DuplicateGroupsAllFiles ==
    vpc = "done" =>
        /\ \A p, q \in Paths :
              (p # q /\ audio_files[p].content = audio_files[q].content) =>
                  Cardinality(GroupsOf(p) \cap GroupsOf(q)) = 1
        /\ GroupsWellFormed

\* the result collected for path p
ResultOf(p) ==
    report.file_results[CHOOSE i \in 1..Len(report.file_results) :
                            report.file_results[i].filepath = p]

\* C7 amended: in a returned report any two audio files whose results carry the
\* same file hash (the probe succeeded and the rules do not allow duplicates) are
\* together in exactly one group, no path is in more than one group and no group
\* has fewer than two paths.
C7_DuplicateGroupsHashed ==
    vpc = "done" =>
        /\ \A p, q \in Paths :
              (p # q /\ ResultOf(p).file_hash # NoHash
                     /\ ResultOf(p).file_hash = ResultOf(q).file_hash) =>
                  Cardinality(GroupsOf(p) \cap GroupsOf(q)) = 1
        /\ GroupsWellFormed

\* a returned report with a group of two byte-identical files beside a file that
\* is nobody's duplicate and is in no group
C7_Witness ==
    /\ vpc = "done"
    /\ Len(report.duplicates_found) = 1
    /\ Len(report.duplicates_found[1].files) = 2
    /\ \E p \in Paths : ResultOf(p).file_hash # NoHash /\ GroupsOf(p) = {}

\* the buckets of the hash map that list path p
BucketsOf(p) ==
    {b \in 1..Len(loc.hash_map) :
        \E i \in 1..Len(loc.hash_map[b].files) : loc.hash_map[b].files[i] = p}

\* the paths whose result the loop has processed
Collected == {p \in Paths : task[p] = "collected" /\ ~future[p][1].raised}

\* C8: under every interleaving of the workers no update of the hash map or of the
\* shared counters is lost: every collected result that carries a hash has put
\* exactly one path into exactly one bucket, the bucket of its hash; a result not
\* yet collected has put none; and the counters count every collected result once.
C8_NoLostUpdate ==
    vpc \in {"collect", "aborting", "done", "raised"} =>
        /\ \A p \in Collected :
              IF future[p][1].file_hash # NoHash
              THEN /\ Cardinality(BucketsOf(p)) = 1
                   /\ \A b \in BucketsOf(p) :
                         /\ loc.hash_map[b].hash = future[p][1].file_hash
                         /\ Cardinality({i \in 1..Len(loc.hash_map[b].files) :
                                            loc.hash_map[b].files[i] = p}) = 1
              ELSE BucketsOf(p) = {}
        /\ \A p \in Paths \ Collected : BucketsOf(p) = {}
        /\ Len(loc.file_results) = Cardinality(Collected)
        /\ report.valid_audio_files + report.invalid_audio_files = Cardinality(Collected)
        /\ Len(loc.durations) =
              Cardinality({p \in Collected : future[p][1].audio_info.is_valid})

\* two workers had finished with the same file hash before either result was
\* collected, and the report lists both paths in one group
C8_Witness ==
    /\ vpc = "done"
    /\ tie
    /\ Len(audio_files) = 2
    /\ Len(report.duplicates_found) = 1
    /\ Len(report.duplicates_found[1].files) = 2

\* C9: with zero audio files validate_dataset returns (does not raise) a report
\* with zero counts, empty distributions, no duplicates and no file results, and
\* no pool is opened and no task submitted.
C9_EmptyDataset ==
    (Len(audio_files) = 0 /\ vpc # "start") =>
        /\ vpc = "done"
        /\ report = NewReport
        /\ report.total_audio_files = 0
        /\ report.valid_audio_files = 0 /\ report.invalid_audio_files = 0
        /\ DOMAIN report.format_distribution = {}
        /\ DOMAIN report.sample_rate_distribution = {}
        /\ DOMAIN report.channels_distribution = {}
        /\ report.duplicates_found = <<>> /\ report.file_results = <<>>
        /\ pool = "none"

\* validate_dataset has returned from a tree without audio files
C9_Witness == Len(audio_files) = 0 /\ vpc = "done"

(***************************************************************************)
(* Claims about organize_dataset (SpecOrg).                                *)
(***************************************************************************)
\* organize_dataset has returned from a run that submitted process_track tasks
ReturnedAfterExecution == opc = "done" /\ Len(org_result.track_mappings) > 0

\* the error of the mapping is set: the Optional[str] field holds a string, which
\* is the message convert_audio returned or the text of the exception caught
Failed(m) == m.error # NoError

\* the mapping at position i of the returned list is a success: no error, the
\* path filled in, the output file complete, converted iff it had to be
Succeeded(i) ==
    LET m == org_result.track_mappings[i]
    IN  /\ ~Failed(m)
        /\ m.new_path # <<>>
        /\ disk[i] = "complete"
        /\ m.conversion_done <=> m.needs_conversion

\* C10: after organize_dataset returns from a run that reached execution, every
\* TrackMapping is in exactly one terminal state, succeeded (no error, new_path
\* filled in, output file present, conversion_done iff needs_conversion) or
\* failed (error set); none has an empty new_path and no error.
C10_MappingTerminal ==
    ReturnedAfterExecution =>
        \A i \in 1..Len(org_result.track_mappings) :
            LET m == org_result.track_mappings[i]
            IN  /\ Succeeded(i) \/ Failed(m)
                /\ ~(Succeeded(i) /\ Failed(m))
                /\ ~(m.new_path = <<>> /\ ~Failed(m))

\* a returned run in which one track was transcoded and is a success, and the
\* transcoding of another failed: its mapping carries the (here empty) message of
\* ffmpeg, its new_path is filled in and its output file is not complete
C10_Witness ==
    /\ ReturnedAfterExecution
    /\ \E i, j \in 1..Len(org_result.track_mappings) :
          /\ Succeeded(i)
          /\ org_result.track_mappings[i].conversion_done
          /\ Failed(org_result.track_mappings[j])
          /\ org_result.track_mappings[j].error = <<"">>
          /\ org_result.track_mappings[j].new_path # <<>>
          /\ disk[j] # "complete"

\* the source file of the mapping at position i
SourceOf(i) == audio_files[mappings[i].original_path]

\* the process_track task of mapping i failed: convert_audio reported
\* success = False, or shutil.copy2 raised
TaskFailed(i) ==
    IF mappings[i].needs_conversion
    THEN ~convert_audio(SourceOf(i)).success
    ELSE ~SourceOf(i).copy_ok

\* mapping i is listed in result.errors
ListedInErrors(i) ==
    \E k \in 1..Len(org_result.errors) :
        org_result.errors[k].track = mappings[i].original_filename

\* C11: every mapping whose transcode reported failure or whose copy raised is
\* treated as failed by organize_dataset, whatever the error message (an empty
\* one included) and whatever is left of the output file: it is counted in
\* failed, listed in errors, not counted in successfully_processed, and
\* successfully_processed + failed = total_tracks.
C11_FailuresCounted ==
    ReturnedAfterExecution =>
        /\ org_result.failed = Cardinality({i \in Tracks : TaskFailed(i)})
        /\ \A i \in Tracks : TaskFailed(i) => ListedInErrors(i)
        /\ org_result.successfully_processed =
              Cardinality({i \in Tracks : ~TaskFailed(i)})
        /\ org_result.successfully_processed + org_result.failed
              = org_result.total_tracks

\* the fields of a mapping that process_track writes
OutcomeFields(m) == <<m.new_path, m.conversion_done, m.error>>

\* the life of a task: submitted once, run once, collected once
TaskSteps ==
    {<<"queued", "running">>, <<"running", "finished">>,
     <<"finished", "collected">>}

\* C12: in the execution phase each TrackMapping is handed to exactly one task,
\* its outcome fields (new_path, conversion_done, error) change only in the step
\* in which that task completes, under every interleaving of the pool, and the
\* collecting loop takes a mapping only once its task has completed.
C12_SingleWriter ==
    [][/\ \A i \in Tracks :
             /\ otask'[i] # otask[i] => <<otask[i], otask'[i]>> \in TaskSteps
             /\ OutcomeFields(mappings'[i]) # OutcomeFields(mappings[i]) =>
                    otask[i] = "running" /\ otask'[i] = "finished"
       /\ (opc = "execute" /\ org_result' # org_result) =>
             \E j \in Tracks :
                /\ otask[j] = "finished" /\ otask'[j] = "collected"
                /\ org_result'.failed
                      = CollectMapping(org_result, mappings[j]).failed
                /\ org_result'.successfully_processed
                      = CollectMapping(org_result, mappings[j]).successfully_processed
      ]_vars

\* two tasks in the pool at once: one has completed and written its mapping and
\* is not yet collected, the other is still running and its mapping is untouched
C12_Witness ==
    /\ opc = "execute"
    /\ \E i, j \in Tracks :
          /\ otask[i] = "finished" /\ mappings[i].new_path # <<>>
          /\ otask[j] = "running" /\ mappings[j].new_path = <<>>

\* C13: once the tasks of a phase are submitted, every task eventually ends (with
\* a result or with its own failure) and the phase eventually ends, in the
\* validation phase and in the execution phase: no failure of a task cancels a
\* sibling or keeps it from running to its end.
C13_TasksComplete ==
    /\ \A p \in 1..MaxOrgFiles :
          (p \in DOMAIN task /\ task[p] = "queued")
              ~> (p \in DOMAIN task /\ task[p] \in {"finished", "collected"})
    /\ \A i \in 1..MaxOrgFiles :
          (i \in DOMAIN otask /\ otask[i] = "queued")
              ~> (i \in DOMAIN otask /\ otask[i] \in {"finished", "collected"})
    /\ (pool = "open") ~> (vpc \in {"done", "raised"})
    /\ (opc = "execute") ~> (opc = "done")

\* a validation task has failed with an exception, the loop was left by it, and
\* a sibling that was still running or queued then has run to its end
C13_Witness ==
    /\ vpc = "raised"
    /\ \E p, q \in Paths :
          /\ task[p] = "collected" /\ future[p][1].raised
          /\ task[q] = "finished" /\ ~future[q][1].raised

\* the phases of organize_dataset in the order the claim gives them
PhaseOrder ==
    <<"START", "VALIDATE", "DISCOVER_FILES", "FILTER_INVALID", "CREATE_DIRS",
      "PLAN_TRACKS", "ASSIGN_SPLITS", "EXECUTE", "GENERATE_METADATA", "DONE">>

Rank(ph) == CHOOSE k \in 1..Len(PhaseOrder) : PhaseOrder[k] = ph

Entered(ph) == \E k \in 1..Len(phases) : phases[k] = ph

\* the phases entered so far were entered in the order of PhaseOrder, and the one
\* before was over: validation had returned before the files were listed, and
\* every task was collected before the metadata was written
PhasesInOrder ==
    /\ \A k \in 1..Len(phases) : \A l \in 1..Len(phases) :
          k < l => Rank(phases[k]) < Rank(phases[l])
    /\ (Entered("VALIDATE") /\ Entered("DISCOVER_FILES")) => vpc = "done"
    /\ Entered("GENERATE_METADATA") =>
          \A i \in Tracks : otask[i] = "collected"

\* C14: organize_dataset visits its phases only in the order START, (VALIDATE),
\* DISCOVER_FILES, (FILTER_INVALID), CREATE_DIRS, PLAN_TRACKS, (ASSIGN_SPLITS),
\* EXECUTE, GENERATE_METADATA, DONE, none before its predecessor is over, and a
\* run with at least one file to process reaches DONE.
C14_PhaseOrder ==
    /\ []PhasesInOrder
    /\ (org_result # <<>> /\ org_result.total_tracks > 0) ~> (opc = "done")

\* C15: the phases are not pipelined: in a run with validate_first no
\* process_track task starts before every validate_audio_file task has ended and
\* its result was collected, and the metadata is written only after every
\* process_track task has ended.
C15_NoPipelining ==
    /\ (args # <<>> /\ args.validate_first
           /\ \E i \in Tracks : otask[i] # "queued") =>
          (vpc = "done" /\ \A p \in Paths : task[p] = "collected")
    /\ (artifacts # <<>> /\ artifacts # NoArtifacts) =>
          \A i \in Tracks : otask[i] \in {"finished", "collected"}

\* a run with validate_first on two files: a process_track task is running, and
\* both validation results had been collected
C15_Witness ==
    /\ args # <<>> /\ args.validate_first
    /\ Len(audio_files) = 2
    /\ opc = "execute"
    /\ \E i \in Tracks : otask[i] = "running"
    /\ \A p \in Paths : task[p] = "collected"

\* organize_dataset has ended, by returning or by raising
OrgEnded == opc \in {"done", "raised"}

\* the paths that have a TrackMapping
Planned == {mappings[i].original_path : i \in Tracks}

\* the paths whose process_track task has run and was collected
Executed == {mappings[i].original_path : i \in {j \in Tracks : otask[j] = "collected"}}

\* the paths the validation report marks invalid
InvalidFiles ==
    {report.file_results[k].filepath :
        k \in {j \in 1..Len(report.file_results) : ~report.file_results[j].is_valid}}

\* C16: with validate_first and skip_invalid, exactly the files the validation
\* report marks valid are planned and executed; every invalid file adds one to
\* skipped_invalid and gets no TrackMapping, no track id and no output file.
C16_OnlyValidPlanned ==
    (OrgEnded /\ vpc = "done" /\ args.validate_first /\ args.skip_invalid) =>
        /\ Planned = ValidFiles(report)
        /\ Executed = ValidFiles(report)
        /\ Cardinality(Planned) = Len(mappings)
        /\ org_result.skipped_invalid = Cardinality(InvalidFiles)
        /\ Planned \cap InvalidFiles = {}

\* no file is left after discovery and filtering
NoneLeft == Entered("DISCOVER_FILES") /\ org_result.total_tracks = 0

\* organize_dataset has returned, and nothing was created, planned, executed or
\* written
NothingDone ==
    /\ opc = "done"
    /\ dirs = {}
    /\ mappings = <<>> /\ otask = <<>> /\ disk = <<>>
    /\ track_splits = <<>>
    /\ artifacts = NoArtifacts
    /\ org_result.track_mappings = <<>> /\ org_result.errors = <<>>

\* C17 as stated: if no file is left after discovery and filtering,
\* organize_dataset returns without error, creates no directory, plans and
\* executes nothing, writes no metadata, and total_tracks,
\* successfully_processed, failed, skipped_invalid and
\* tracks_needing_conversion are all zero.
C17_NoTracksAllZero ==
    NoneLeft =>
        /\ NothingDone
        /\ org_result.total_tracks = 0
        /\ org_result.successfully_processed = 0
        /\ org_result.failed = 0
        /\ org_result.skipped_invalid = 0
        /\ org_result.tracks_needing_conversion = 0

\* C17 amended: if no file is left after discovery and filtering,
\* organize_dataset returns without error, creates no directory, plans and
\* executes nothing, writes no metadata, and total_tracks,
\* successfully_processed, failed and tracks_needing_conversion are zero, while
\* skipped_invalid is the number of files the validation found invalid (zero
\* without validate_first or when the tree holds no audio file).
C17_NoTracksReturn ==
    NoneLeft =>
        /\ NothingDone
        /\ org_result.total_tracks = 0
        /\ org_result.successfully_processed = 0
        /\ org_result.failed = 0
        /\ org_result.skipped_invalid =
              (IF args.validate_first THEN Cardinality(InvalidFiles) ELSE 0)
        /\ org_result.tracks_needing_conversion = 0

\* two files, both found invalid and filtered out: organize_dataset has returned
\* with nothing done and skipped_invalid = 2
C17_Witness ==
    /\ NoneLeft /\ NothingDone
    /\ args.validate_first /\ args.skip_invalid
    /\ Len(audio_files) = 2
    /\ org_result.skipped_invalid = 2

\* C18: every run of organize_dataset that reaches GENERATE_METADATA writes all
\* three artifacts, tracks.json, splits.json and dataset_info.json, whatever
\* create_splits and the split-subdirectory setting are.
C18_ThreeArtifacts ==
    Entered("GENERATE_METADATA") =>
        /\ artifacts.tracks # <<>>
        /\ artifacts.splits # <<>>
        /\ artifacts.dataset_info # <<>>

\* the positions of the successful mappings of the returned result
OkTracks == {i \in 1..Len(org_result.track_mappings) : Succeeded(i)}

\* the track ids a sequence of ids or of track entries holds
IdsIn(q) == {q[k] : k \in 1..Len(q)}

OkIds == {org_result.track_mappings[i].new_track_id : i \in OkTracks}

\* the number of successful tracks with split label s
OkInSplit(s) ==
    Cardinality({i \in OkTracks : track_splits # <<>> /\ track_splits[1][i] = s})

\* the count split_distribution gives for label s
Distributed(dist, s) == IF s \in DOMAIN dist THEN dist[s] ELSE 0

\* C19: the artifacts reflect only the successfully executed tracks: tracks.json
\* lists exactly the mappings without error, splits.json lists only their track
\* ids, and total_tracks, total_duration_sec, total_size_bytes and
\* split_distribution of dataset_info.json are those of the successful mappings.
C19_ArtifactsOfSuccesses ==
    Entered("GENERATE_METADATA") =>
        LET tracks == artifacts.tracks[1]
            info   == artifacts.dataset_info[1]
            ms     == org_result.track_mappings
        IN  /\ {tracks[k].track_id : k \in 1..Len(tracks)} = OkIds
            /\ Len(tracks) = Cardinality(OkTracks)
            /\ artifacts.splits # <<>> =>
                  IdsIn(artifacts.splits[1].train)
                     \cup IdsIn(artifacts.splits[1].val)
                     \cup IdsIn(artifacts.splits[1].test) = OkIds
            /\ info.total_tracks = Cardinality(OkTracks)
            /\ info.total_duration_sec =
                  SeqSum([i \in 1..Len(ms) |->
                             IF i \in OkTracks THEN ms[i].audio_info.duration_sec
                             ELSE 0])
            /\ info.total_size_bytes =
                  SeqSum([i \in 1..Len(ms) |->
                             IF i \in OkTracks
                             THEN OutputSize(ms[i], disk[i], audio_files) ELSE 0])
            /\ \A s \in {"train", "val", "test"} :
                  Distributed(info.split_distribution, s) = OkInSplit(s)

\* the files of the tree that are at the target specification and can be copied,
\* and those at another sample rate
AtSpecFiles == {p \in Paths : audio_files[p] = SourceFile(1, "ok", TRUE)}

WrongRateFiles ==
    {p \in Paths : audio_files[p].probe_ok /\ audio_files[p].sample_rate = 48000
                      /\ audio_files[p].ext = "wav"}

\* the run is organize_dataset(validate_first=True, skip_invalid=True) under the
\* configuration as config.py declares it, on a tree of files at specification
\* and files at the wrong sample rate only
EndToEndCase ==
    /\ args.validate_first /\ args.skip_invalid
    /\ structure.use_splits_subdirs = <<>>
    /\ AtSpecFiles \cup WrongRateFiles = Paths
    /\ AtSpecFiles # {}

\* C22: end to end with the default configuration, on V files at specification
\* and I files at the wrong sample rate, organize_dataset with validate_first and
\* skip_invalid does not end in an exception; when it has ended the validation
\* report counts V valid and I invalid files with both rates in the sample rate
\* distribution, skipped_invalid is I, and exactly V tracks named
\* track_00001.wav .. track_<V>.wav were produced.
C22_EndToEnd ==
    LET V == Cardinality(AtSpecFiles)
        I == Cardinality(WrongRateFiles)
    IN  (EndToEndCase /\ OrgEnded) =>
           /\ opc = "done"
           /\ report.valid_audio_files = V
           /\ report.invalid_audio_files = I
           /\ DOMAIN report.sample_rate_distribution =
                 {audio_files[p].sample_rate : p \in Paths}
           /\ org_result.skipped_invalid = I
           /\ org_result.total_tracks = V
           /\ org_result.successfully_processed = V
           /\ Len(mappings) = V
           /\ \A k \in 1..V :
                 /\ mappings[k].new_filename =
                       [id |-> [prefix |-> "track", digits |-> <<0, 0, 0, 0, k>>],
                        ext |-> "wav"]
                 /\ mappings[k].original_path \in AtSpecFiles
                 /\ disk[k] = "complete"

\* C28: once organize_dataset has listed and filtered the files, whatever
\* validate_first and skip_invalid are, skipped_invalid is the number of files
\* that were filtered out: the number of audio files discovered is total_tracks +
\* skipped_invalid, and skipped_invalid is 0 when no file was excluded.
C28_SkippedAccounting ==
    Entered("DISCOVER_FILES") =>
        /\ Len(audio_files) = org_result.total_tracks + org_result.skipped_invalid
        /\ org_result.total_tracks = Len(audio_files) =>
              org_result.skipped_invalid = 0

\* the number of times id occurs in the list q
Occurrences(q, id) == Cardinality({k \in 1..Len(q) : q[k] = id})

\* the list of splits.json for label s
SplitList(s) ==
    CASE s = "train" -> artifacts.splits[1].train
      [] s = "val"   -> artifacts.splits[1].val
      [] s = "test"  -> artifacts.splits[1].test

\* C29: when splits are assigned there is one label per mapping, fixed by the
\* number of tracks and the seed alone; for every mapping i the task writes the
\* file under audio/<splits[i]>, the entry of tracks.json with the track id of i
\* has split = splits[i], and the id of every successful track is once in the
\* list of splits.json for splits[i] and in neither of the other two lists,
\* whatever the order in which the tasks completed.
C29_SplitAligned ==
    track_splits # <<>> =>
        LET sp == track_splits[1]
        IN  /\ Len(sp) = Len(mappings)
            /\ sp = assign_splits(0, Len(mappings), 80, 10, 10, 42).splits
            /\ \A i \in Tracks :
                  otask[i] \in {"finished", "collected"} =>
                     /\ mappings[i].new_path =
                           <<AudioDir(sp[i]), mappings[i].new_filename>>
                     /\ AudioDir(sp[i]) \in dirs
            /\ artifacts # NoArtifacts =>
                  /\ artifacts.splits # <<>>
                  /\ \A k \in 1..Len(artifacts.tracks[1]) : \A i \in Tracks :
                        artifacts.tracks[1][k].track_id = mappings[i].new_track_id
                           => artifacts.tracks[1][k].split = <<sp[i]>>
                  /\ \A i \in OkTracks : \A s \in {"train", "val", "test"} :
                        Occurrences(SplitList(s), mappings[i].new_track_id)
                           = (IF s = sp[i] THEN 1 ELSE 0)

\* a returned run with splits on two tracks: the first failed, the second
\* succeeded, is labelled otherwise than the first and is the only id in the
\* list of its label
C29_Witness ==
    /\ opc = "done"
    /\ track_splits # <<>>
    /\ Len(mappings) = 2
    /\ track_splits[1][1] # track_splits[1][2]
    /\ Truthy(mappings[1].error)
    /\ 2 \in OkTracks
    /\ SplitList(track_splits[1][2]) = <<mappings[2].new_track_id>>
    /\ org_result.errors # <<>>

(***************************************************************************)
(* Claims about track planning (SpecPlan).                                 *)
(***************************************************************************)
\* the number a sequence of decimal digits writes
RECURSIVE DigitsValue(_)
DigitsValue(d) ==
    IF d = <<>> THEN 0 ELSE 10 * DigitsValue(SubSeq(d, 1, Len(d) - 1)) + d[Len(d)]

\* the number of decimal digits of n
RECURSIVE NumDigits(_)
NumDigits(n) == IF n < 10 THEN 1 ELSE 1 + NumDigits(n \div 10)

\* id is the track id of index n: the prefix, then n in decimal, padded with
\* zeros to five digits and longer when n needs more
IsIdOf(id, n) ==
    /\ id.prefix = "track"
    /\ DigitsValue(id.digits) = n
    /\ Len(id.digits) = (IF NumDigits(n) > 5 THEN NumDigits(n) ELSE 5)
    /\ \A k \in 1..Len(id.digits) : id.digits[k] \in 0..9

\* C20: planning is a function of the ordered file list: the i-th (1-based) file
\* of the sorted, filtered list gets the track id of index i, the track ids and
\* the new filenames of a run are pairwise distinct, also for indices with more
\* digits than the padding width, and planning the same list again gives the
\* same ids and filenames.
C20_PlanDeterministic ==
    planRes # <<>> =>
        LET ms    == planRes[1].mappings
            files == Ascending(planArg.keep)
        IN  /\ Len(ms) = Len(files)
            /\ \A k \in 1..Len(ms) :
                  /\ ms[k].original_path = files[k]
                  /\ IsIdOf(ms[k].new_track_id, k)
                  /\ ms[k].new_filename = [id |-> ms[k].new_track_id, ext |-> "wav"]
            /\ \A k, l \in 1..Len(ms) :
                  k # l => /\ ms[k].new_track_id # ms[l].new_track_id
                           /\ ms[k].new_filename # ms[l].new_filename
            /\ IsIdOf(planRes[1].id_i, planArg.i)
            /\ IsIdOf(planRes[1].id_j, planArg.j)
            /\ planArg.i # planArg.j => planRes[1].id_i # planRes[1].id_j
            /\ planAgain # <<>> => planAgain = planRes

\* a list of two files of which the filter kept the second, planned twice, with
\* the ids of index 1 and of index 100001, which has more digits than the padding
C20_Witness ==
    /\ planAgain # <<>>
    /\ Len(planArg.tree) = 2 /\ planArg.keep = {2}
    /\ planRes[1].mappings[1].original_path = 2
    /\ planArg.i = 1 /\ planArg.j = 100001
    /\ Len(planRes[1].id_j.digits) = 6

\* the file is at the target specification as far as the probe can tell: the
\* suffix is the target extension (whatever its case), rate and channels are the
\* target's, and the bit depth is the target's or was not reported
AtTarget(f) ==
    /\ f.ext \in {"wav", "WAV"}
    /\ f.sample_rate = 44100
    /\ f.channels = 2
    /\ f.bit_depth \in {0, 16}

\* C21: every planned file needs conversion iff its probe failed or the probe
\* shows a difference from the target in extension, sample rate, channels or
\* known bit depth; a file that does not need it is handed to shutil.copy2, never
\* to ffmpeg: where the copy succeeds the output holds the bytes of the source
\* and conversion_done stays false.
C21_NeedsConversion ==
    planRes # <<>> =>
        LET ms == planRes[1].mappings
            tr == planRes[1].tracks
        IN  \A k \in 1..Len(ms) :
               LET f == planArg.tree[ms[k].original_path]
               IN  /\ ms[k].needs_conversion <=> (~f.probe_ok \/ ~AtTarget(f))
                   /\ ~ms[k].needs_conversion =>
                          /\ ~tr[k].mapping.conversion_done
                          /\ tr[k].copied <=> f.copy_ok
                          /\ f.copy_ok => /\ tr[k].file = "complete"
                                          /\ tr[k].mapping.error = <<>>
                   /\ ms[k].needs_conversion => ~tr[k].copied

\* a planned list of two files: one with no bit depth reported, which is copied,
\* and one at 24 bits, which is transcoded
C21_Witness ==
    /\ planRes # <<>>
    /\ Len(planRes[1].mappings) = 2
    /\ planArg.tree[1].bit_depth = 0 /\ planArg.tree[1].ext = "wav"
    /\ ~planRes[1].mappings[1].needs_conversion
    /\ planRes[1].tracks[1].copied
    /\ planArg.tree[2].bit_depth = 24
    /\ planRes[1].mappings[2].needs_conversion
    /\ planRes[1].tracks[2].mapping.conversion_done

(***************************************************************************)
(* Claims about validate_dataset, continued (Spec).                        *)
(***************************************************************************)
\* the results the collecting loop has appended so far, as positions
Results == 1..Len(loc.file_results)

\* the file a collected result is about
FileOf(r) == audio_files[r.filepath]

\* the file violates a check that the rules enable
ViolatesEnabled(f, c) ==
    \/ TooShort(f, c) \/ TooLong(f, c) \/ WrongRate(f, c) \/ WrongChannels(f, c)
    \/ BadIntegrity(f, c, TRUE)

Probed == {k \in Results : FileOf(loc.file_results[k]).probe_ok}

\* counter holds, for the results in K, how many have each value of Key
Counts(counter, K, Key(_)) ==
    /\ DOMAIN counter = {Key(loc.file_results[k]) : k \in K}
    /\ \A x \in DOMAIN counter :
          counter[x] = Cardinality({k \in K : Key(loc.file_results[k]) = x})

FormatKey(r) == r.audio_info.format

RateKey(r) == r.audio_info.sample_rate

ChannelsKey(r) == r.audio_info.channels

\* C25: the result of a file whose probe failed has is_valid false, exactly one
\* issue, the probe error, the four flags at their initial true, and neither
\* file_hash nor audio_hash; the collecting loop puts it into no distribution, no
\* duration or size list and no hash bucket (the distributions count the probed
\* files only), and the report lists it in no duplicate group.
C25_ProbeFailure ==
    /\ \A k \in Results :
          LET r == loc.file_results[k]
          IN  ~FileOf(r).probe_ok =>
                /\ ~r.is_valid
                /\ r.issues = <<IssueProbe>>
                /\ r.integrity_ok /\ r.duration_ok
                /\ r.sample_rate_ok /\ r.channels_ok
                /\ r.file_hash = NoHash /\ r.audio_hash = NoHash
                /\ BucketsOf(r.filepath) = {}
                /\ vpc = "done" => GroupsOf(r.filepath) = {}
    /\ loc # <<>> =>
          /\ Counts(loc.format_counts, Probed, FormatKey)
          /\ Counts(loc.sample_rate_counts, Probed, RateKey)
          /\ Counts(loc.channel_counts, Probed, ChannelsKey)
          /\ Len(loc.durations) = Cardinality(Probed)
          /\ Len(loc.sizes) = Cardinality(Probed)

\* a returned report on two files, one that cannot be probed and one that can:
\* the first is invalid with the probe issue, the second alone is counted
C25_Witness ==
    /\ vpc = "done"
    /\ Len(audio_files) = 2
    /\ ~audio_files[1].probe_ok /\ audio_files[2].probe_ok
    /\ ~ResultOf(1).is_valid /\ ResultOf(1).issues = <<IssueProbe>>
    /\ Len(loc.durations) = 1
    /\ report.invalid_audio_files >= 1

\* C26: while validate_dataset collects, after the k-th result was collected
\* valid_audio_files + invalid_audio_files is k and the progress callback was
\* called k times, the j-th time with (j, total), whatever the order in which
\* the tasks completed; a returned report has valid_audio_files +
\* invalid_audio_files = total_audio_files = len(file_results).
C26_ProgressCounts ==
    LET k == Len(loc.file_results)
    IN  /\ k = Cardinality(Collected)
        /\ report.valid_audio_files + report.invalid_audio_files = k
        /\ Len(loc.progress) = k
        /\ \A j \in 1..k : loc.progress[j] = <<j, Len(audio_files)>>
        /\ vpc = "done" =>
              /\ report.valid_audio_files + report.invalid_audio_files
                    = report.total_audio_files
              /\ report.total_audio_files = Len(report.file_results)
              /\ report.total_audio_files = Len(audio_files)

\* two of three results are collected, the first one collected is not that of
\* the first file and one of the two is invalid; the callback was last called
\* with (2, 3)
C26_Witness ==
    /\ vpc = "collect"
    /\ Len(audio_files) = 3
    /\ Len(loc.file_results) = 2
    /\ loc.file_results[1].filepath # 1
    /\ report.invalid_audio_files = 1 /\ report.valid_audio_files = 1
    /\ loc.progress[2] = <<2, 3>>

\* what validate_audio_file returns for the file at path p
Outcome(p) == validate_audio_file(audio_files[p], p, cfg, TRUE)

\* the paths whose probe succeeds
ProbedPaths == {p \in Paths : audio_files[p].probe_ok}

\* dist counts, for the probed files, how many have each value of Key
Distribution(dist, Key(_)) ==
    /\ DOMAIN dist = {Key(audio_files[p]) : p \in ProbedPaths}
    /\ \A x \in DOMAIN dist :
          dist[x] = Cardinality({p \in ProbedPaths : Key(audio_files[p]) = x})

FileFormat(f) == f.format

FileRate(f) == f.sample_rate

FileChannels(f) == f.channels

\* the sets of two or more paths whose files have the same file hash
HashClasses ==
    {S \in SUBSET Paths :
        /\ Cardinality(S) >= 2
        /\ \E p \in S : /\ Outcome(p).file_hash # NoHash
                         /\ S = {q \in Paths :
                                   Outcome(q).file_hash = Outcome(p).file_hash}}

\* the duplicate groups of the report, each as the set of its paths
GroupSets ==
    {{report.duplicates_found[g].files[i] :
         i \in 1..Len(report.duplicates_found[g].files)} :
     g \in 1..Len(report.duplicates_found)}

\* the files beyond the first of every class: the classes are disjoint
ExtraFiles == Cardinality(UNION HashClasses) - Cardinality(HashClasses)

\* the issue kinds and their counts, as a function of the file set alone
IssuesOfFiles(summary) ==
    LET kinds == {k \in {IssueProbe, IssueShort, IssueLong, IssueRate,
                         IssueChannels, IssueIntegrity} :
                     \E p \in Paths : HasIssue(Outcome(p), k)}
        dups  == IF HashClasses # {} THEN {"Duplicatas encontradas"} ELSE {}
    IN  /\ DOMAIN summary = kinds \cup dups
        /\ \A k \in kinds :
              summary[k] = Cardinality({p \in Paths : HasIssue(Outcome(p), k)})
        /\ \A k \in dups : summary[k] = ExtraFiles

\* the aggregates of a returned report other than the duration total are
\* functions of the file set and the configuration
AggregatesOfFiles ==
    /\ report.total_audio_files = Len(audio_files)
    /\ report.valid_audio_files =
          Cardinality({p \in Paths : Outcome(p).is_valid})
    /\ report.invalid_audio_files =
          Cardinality({p \in Paths : ~Outcome(p).is_valid})
    /\ Distribution(report.format_distribution, FileFormat)
    /\ Distribution(report.sample_rate_distribution, FileRate)
    /\ Distribution(report.channels_distribution, FileChannels)
    /\ report.total_size_bytes =
          SeqSum([p \in Paths |-> IF p \in ProbedPaths
                                  THEN audio_files[p].size ELSE 0])
    /\ ProbedPaths # {} =>
          /\ \E p \in ProbedPaths :
                report.min_duration_sec = audio_files[p].duration_sec
          /\ \E p \in ProbedPaths :
                report.max_duration_sec = audio_files[p].duration_sec
          /\ \A p \in ProbedPaths :
                /\ report.min_duration_sec <= audio_files[p].duration_sec
                /\ report.max_duration_sec >= audio_files[p].duration_sec
    /\ IssuesOfFiles(report.issues_summary)
    /\ GroupSets = HashClasses
    /\ {report.file_results[k] : k \in 1..Len(report.file_results)}
          = {Outcome(p) : p \in Paths}

\* the durations of the probed files in the order of the sorted file list
DurationsInPathOrder ==
    LET order == Ascending(ProbedPaths)
    IN  [k \in 1..Len(order) |-> audio_files[order[k]].duration_sec]

\* C27: the aggregate content of a returned report is the same under every
\* interleaving of the workers: the valid and invalid counts, the format, sample
\* rate and channel distributions, the duration and size totals, the issues
\* summary and the duplicate groups as sets of paths are those of the run in
\* which the results are collected in the order of the file list.
C27_OrderIndependent ==
    vpc = "done" =>
        /\ AggregatesOfFiles
        /\ report.total_duration_sec = FloatSum(DurationsInPathOrder)

(***************************************************************************)
(* Claims about the command line (SpecCli).                                *)
(***************************************************************************)
\* validation was run and some audio file did not pass it: its result is not
\* valid, or validate_audio_file raised on it
FailedValidation ==
    /\ vpc # "idle"
    /\ \E p \in Paths :
          LET r == validate_audio_file(audio_files[p], p, cfg, TRUE)
          IN  r.raised \/ ~r.is_valid

\* some planned track could not be copied or converted
FailedOrganization == \E i \in Tracks : TaskFailed(i)

\* the command ran to its end without an exception
RanToEnd ==
    /\ vpc # "raised" /\ opc # "raised"
    /\ cli.command = "validate" \/ opc = "done"

\* C23: the process exits with status 0 exactly on full success, that is when the
\* command ran to its end, no audio file failed validation (files skipped as
\* invalid included) and no track failed to be copied or converted; otherwise it
\* exits with status 1.
C23_ExitCode ==
    exit_code # <<>> =>
        /\ exit_code \in {<<0>>, <<1>>}
        /\ exit_code = <<0>> <=>
              (RanToEnd /\ ~FailedValidation /\ ~FailedOrganization)

(***************************************************************************)
(* Claims about the async bucket pipeline (SpecAsync).                     *)
(***************************************************************************)
\* the coroutines that have downloaded their blob and gone through the
\* duplicate check
Checked ==
    {i \in Coroutines : blobs[i].download_ok /\ apc[i] \in {"upload", "metadata", "done"}}

\* C30: among the coroutines that share hashes_processados and download
\* byte-identical content, at most one gets past the duplicate check to the
\* upload, under every interleaving the semaphore allows: no two uploads carry
\* the same content, every other coroutine that went through the check has
\* status ignorado_duplicado, and the set holds exactly the hashes uploaded.
C30_AtomicCheckAndAdd ==
    /\ \A i, j \in Uploaders :
          i # j => blobs[i].content # blobs[j].content
    /\ Len(uploads) = Cardinality(Uploaders)
    /\ \A i \in Checked :
          i \notin Uploaders =>
             /\ resultado[i] = "ignorado_duplicado"
             /\ \E j \in Uploaders : j # i /\ blobs[j].content = blobs[i].content
    /\ \A i \in Uploaders : resultado[i] # "ignorado_duplicado"
    /\ hashes_processados = {blobs[i].content : i \in Uploaders}

\* two coroutines held the semaphore together on the same content: the second
\* one's download answered first and its upload is still awaited, the first
\* one has ended as a duplicate
C30_Witness ==
    /\ Len(blobs) >= 2
    /\ blobs[1].content = blobs[2].content
    /\ apc[2] = "upload"
    /\ apc[1] = "done" /\ resultado[1] = "ignorado_duplicado"

====
